---------------------------- MODULE Spec2Model ----------------------------
(***************************************************************************)
(* A model of the LR35902 interpreter core of gb18 (src/src/cpu/mod.rs).   *)
(*                                                                         *)
(* The program state is the Cpu struct and the bus it borrows for a step.  *)
(* Every Rust method of Cpu is an operator of the same name that takes the *)
(* machine m (the Cpu fields, the bus, and what the call returned) and     *)
(* yields the machine after the call:                                      *)
(*   m.ret    the usize a handler returns (T-cycles),                      *)
(*   m.val    the u8/u16 a value-returning helper returns,                 *)
(*   m.fault  "none", or "unimplemented" once unimplemented!() panicked,   *)
(*   m.bus    the bus accesses of the current cycle() call, in order.      *)
(* The one public operation, Cpu::cycle, is the action Cycle.              *)
(***************************************************************************)
EXTENDS Integers, Sequences, FiniteSets, TLC

VARIABLES
    cpu,     \* the Cpu struct: pc, sp, af, bc, de, hl, interrupts_enabled, stopped, halted
    mmu,     \* the bus: a map from the addresses written or preloaded to bytes
    cycles,  \* what the last cycle() call returned
    fault,   \* "none", or the panic the last cycle() call ended in
    bus,     \* the bus accesses of the last cycle() call
    pre,     \* the machine when the last cycle() call was entered
    mid,     \* the machine when service_interrupts returned in the last call
    prev,    \* the machine when the call before the last was entered
    steps    \* cycle() calls made so far

vars == <<cpu, mmu, cycles, fault, bus, pre, mid, prev, steps>>

\* Bound on the number of cycle() calls explored from an initial state.
MaxSteps == 2

(***************************************************************************)
(* Machine integers.                                                       *)
(***************************************************************************)
\* `as u8` / wrapping 8-bit arithmetic
AsU8(x) == x % 256

\* `as u16` / wrapping 16-bit arithmetic
AsU16(x) == x % 65536

\* `as i8` of a byte, as a mathematical integer
AsI8(x) == IF x >= 128 THEN x - 256 ELSE x

RECURSIVE BitAnd(_, _)
\* Rust's & on non-negative integers
BitAnd(a, b) ==
    IF a = 0 \/ b = 0 THEN 0
    ELSE (a % 2) * (b % 2) + 2 * BitAnd(a \div 2, b \div 2)

RECURSIVE BitOr(_, _)
\* Rust's | on non-negative integers
BitOr(a, b) ==
    IF a = 0 THEN b
    ELSE IF b = 0 THEN a
    ELSE (IF a % 2 = 1 \/ b % 2 = 1 THEN 1 ELSE 0) + 2 * BitOr(a \div 2, b \div 2)

RECURSIVE BitXor(_, _)
\* Rust's ^ on non-negative integers
BitXor(a, b) ==
    IF a = 0 THEN b
    ELSE IF b = 0 THEN a
    ELSE (IF a % 2 = b % 2 THEN 0 ELSE 1) + 2 * BitXor(a \div 2, b \div 2)

\* Rust's ! on a u16
BitNot16(a) == 65535 - a

\* Rust's ! on a u8
BitNot8(a) == 255 - a

(***************************************************************************)
(* The enums.                                                              *)
(***************************************************************************)
FlagZero == \h80
FlagNegative == \h40
FlagHalfCarry == \h20
FlagCarry == \h10

WideRegisters == {"PC", "SP", "AF", "BC", "DE", "HL"}
Registers == {"A", "B", "C", "D", "E", "H", "L"}
Conditions == {"Zero", "NotZero", "Carry", "NotCarry"}

(***************************************************************************)
(* The bus.  The Mmu the repository runs the Cpu on is the map of its      *)
(* tests: a read of an address never written yields 0x00, a write inserts. *)
(***************************************************************************)
mmu_read(mem, address) == IF address \in DOMAIN mem THEN mem[address] ELSE 0

mmu_write(mem, address, value) ==
    [x \in (DOMAIN mem) \cup {address} |-> IF x = address THEN value ELSE mem[x]]

\* mmu.read(address) on the machine: the value read is m.val
bus_read(m, address) ==
    LET value == mmu_read(m.mmu, address)
    IN  [m EXCEPT !.val = value, !.bus = Append(@, <<"read", address, value>>)]

\* mmu.write(address, value) on the machine
bus_write(m, address, value) ==
    [m EXCEPT !.mmu = mmu_write(@, address, value),
              !.bus = Append(@, <<"write", address, value>>)]

\* Port::IF and Port::IE: the interrupt request and enable bytes of the bus
PortIF == \hFF0F
PortIE == \hFFFF

\* mmu.io_read(port): the byte at the port's address
io_read(m, port) == bus_read(m, port)

\* mmu.io_write(port, value): stores the byte at the port's address
io_write(m, port, value) == bus_write(m, port, value)

(***************************************************************************)
(* The register file.                                                      *)
(***************************************************************************)
\* Cpu::parts: the two bytes of a u16 as the build lays them out in memory.
\* The targets the emulator builds for are little-endian: byte 0 is the low
\* byte and byte 1 the high byte.
parts(value) == [i \in {0, 1} |-> IF i = 0 THEN value % 256 ELSE value \div 256]

\* parts_mut replacing the other byte of the u16
parts_mut_other_byte(value, i, byte) ==
    IF i = 1 THEN (value \div 256) * 256 + byte ELSE byte * 256 + (value % 256)

\* Cpu::parts_mut(value)[i] = byte: the u16 with byte i replaced
parts_mut(value, i, byte) ==
    IF i = 0 THEN (value \div 256) * 256 + byte ELSE byte * 256 + (value % 256)

flag(m, f) == BitAnd(m.af, f) # 0

set_flag(m, f, value) ==
    IF value THEN [m EXCEPT !.af = BitOr(@, f)]
    ELSE [m EXCEPT !.af = BitAnd(@, BitNot16(f))]

\* reads the byte at pc and advances pc; the byte is m.val
read(m) ==
    LET r == bus_read(m, m.pc)
    IN  [r EXCEPT !.pc = AsU16(@ + 1)]

\* two reads, low byte first; the u16 is m.val
read_wide(m) ==
    LET r1 == read(m)
        r2 == read(r1)
    IN  [r2 EXCEPT !.val = BitOr(r1.val, r2.val * 256)]

register(m, reg) ==
    CASE reg = "A" -> parts(m.af)[1]
      [] reg = "B" -> parts(m.bc)[1]
      [] reg = "C" -> parts(m.bc)[0]
      [] reg = "D" -> parts(m.de)[1]
      [] reg = "E" -> parts(m.de)[0]
      [] reg = "H" -> parts(m.hl)[1]
      [] reg = "L" -> parts(m.hl)[0]

set_register(m, reg, value) ==
    CASE reg = "A" -> [m EXCEPT !.af = parts_mut(@, 1, value)]
      [] reg = "B" -> [m EXCEPT !.bc = parts_mut(@, 1, value)]
      [] reg = "C" -> [m EXCEPT !.bc = parts_mut(@, 0, value)]
      [] reg = "D" -> [m EXCEPT !.de = parts_mut(@, 1, value)]
      [] reg = "E" -> [m EXCEPT !.de = parts_mut(@, 0, value)]
      [] reg = "H" -> [m EXCEPT !.hl = parts_mut(@, 1, value)]
      [] reg = "L" -> [m EXCEPT !.hl = parts_mut(@, 0, value)]

\* a handler's return value
Return(m, n) == [m EXCEPT !.ret = n]

\* unimplemented!(): the call panics, and nothing after it runs
Unimplemented(m) == [m EXCEPT !.fault = "unimplemented"]

\* copy_register with source and destination exchanged
copy_register_reversed(m, dest, src) ==
    LET value == register(m, dest)
    IN  Return(set_register(m, src, value), 4)

copy_register(m, dest, src) ==
    LET value == register(m, src)
    IN  Return(set_register(m, dest, value), 4)

wide_register(m, reg) ==
    CASE reg = "PC" -> m.pc
      [] reg = "SP" -> m.sp
      [] reg = "AF" -> m.af
      [] reg = "BC" -> m.bc
      [] reg = "DE" -> m.de
      [] reg = "HL" -> m.hl

set_wide_register(m, reg, value) ==
    CASE reg = "PC" -> [m EXCEPT !.pc = value]
      [] reg = "SP" -> [m EXCEPT !.sp = value]
      [] reg = "AF" -> [m EXCEPT !.af = value]
      [] reg = "BC" -> [m EXCEPT !.bc = value]
      [] reg = "DE" -> [m EXCEPT !.de = value]
      [] reg = "HL" -> [m EXCEPT !.hl = value]

nop(m) == Return(m, 4)

read_wide_immediate(m, reg) ==
    LET r == read_wide(m)
    IN  Return(set_wide_register(r, reg, r.val), 12)

read_immediate(m, reg) ==
    LET r == read(m)
    IN  Return(set_register(r, reg, r.val), 8)

write_register(m, address, reg) ==
    Return(bus_write(m, wide_register(m, address), register(m, reg)), 8)

\* inc_wide setting the zero flag from the result, as the 8-bit inc does
inc_wide_sets_zero(m, reg) ==
    LET value == AsU16(wide_register(m, reg) + 1)
        m1 == set_flag(m, FlagZero, value = 0)
    IN  Return(set_wide_register(m1, reg, value), 8)

inc_wide(m, reg) ==
    LET value == AsU16(wide_register(m, reg) + 1)
    IN  Return(set_wide_register(m, reg, value), 8)

dec_wide(m, reg) ==
    LET value == AsU16(wide_register(m, reg) - 1)
    IN  Return(set_wide_register(m, reg, value), 8)

\* inc with the half-carry test made after the increment
inc_half_carry_after(m, reg) ==
    LET value == AsU8(register(m, reg) + 1)
        m1 == set_flag(m, FlagHalfCarry, BitAnd(value, \h0F) = \h0F)
        m2 == set_register(m1, reg, value)
        m3 == set_flag(m2, FlagZero, value = \h00)
        m4 == set_flag(m3, FlagNegative, FALSE)
    IN  Return(m4, 4)

inc(m, reg) ==
    LET value0 == register(m, reg)
        m1 == set_flag(m, FlagHalfCarry, BitAnd(value0, \h0F) = \h0F)
        value == AsU8(value0 + 1)
        m2 == set_register(m1, reg, value)
        m3 == set_flag(m2, FlagZero, value = \h00)
        m4 == set_flag(m3, FlagNegative, FALSE)
    IN  Return(m4, 4)

dec(m, reg) ==
    LET value0 == register(m, reg)
        m1 == set_flag(m, FlagHalfCarry, BitAnd(value0, \h0F) = \h00)
        value == AsU8(value0 - 1)
        m2 == set_register(m1, reg, value)
        m3 == set_flag(m2, FlagZero, value = \h00)
        m4 == set_flag(m3, FlagNegative, TRUE)
    IN  Return(m4, 4)

(***************************************************************************)
(* Rotates and shifts.  A u8 shifted left drops the bits shifted out.      *)
(***************************************************************************)
rlc_value(m, value0) ==
    LET m1 == set_flag(m, FlagNegative, FALSE)
        m2 == set_flag(m1, FlagHalfCarry, FALSE)
        carry == BitAnd(value0, \h80) \div 128
        value == BitOr(AsU8(value0 * 2), carry)
        m3 == set_flag(m2, FlagCarry, carry # 0)
        m4 == set_flag(m3, FlagZero, value = \h00)
    IN  [m4 EXCEPT !.val = value]

rlc(m, reg) ==
    LET r == rlc_value(m, register(m, reg))
    IN  Return(set_register(r, reg, r.val), 8)

rlc_mem(m) ==
    LET address == wide_register(m, "HL")
        r0 == bus_read(m, address)
        r == rlc_value(r0, r0.val)
    IN  Return(bus_write(r, address, r.val), 16)

\* rl_value rotating the outgoing bit 7 into bit 0 instead of the carry flag
rl_value_through_bit7(m, value0) ==
    LET m1 == set_flag(m, FlagNegative, FALSE)
        m2 == set_flag(m1, FlagHalfCarry, FALSE)
        carry == BitAnd(value0, \h80) \div 128
        value == BitOr(AsU8(value0 * 2), carry)
        m3 == set_flag(m2, FlagCarry, carry # 0)
        m4 == set_flag(m3, FlagZero, value = \h00)
    IN  [m4 EXCEPT !.val = value]

rl_value(m, value0) ==
    LET m1 == set_flag(m, FlagNegative, FALSE)
        m2 == set_flag(m1, FlagHalfCarry, FALSE)
        carry == BitAnd(value0, \h80) \div 128
        value == BitOr(AsU8(value0 * 2), IF flag(m2, FlagCarry) THEN \h01 ELSE \h00)
        m3 == set_flag(m2, FlagCarry, carry # 0)
        m4 == set_flag(m3, FlagZero, value = \h00)
    IN  [m4 EXCEPT !.val = value]

rl(m, reg) ==
    LET r == rl_value(m, register(m, reg))
    IN  Return(set_register(r, reg, r.val), 8)

rl_mem(m) ==
    LET address == wide_register(m, "HL")
        r0 == bus_read(m, address)
        r == rl_value(r0, r0.val)
    IN  Return(bus_write(r, address, r.val), 16)

rrc_value(m, value0) ==
    LET m1 == set_flag(m, FlagNegative, FALSE)
        m2 == set_flag(m1, FlagHalfCarry, FALSE)
        carry == AsU8(BitAnd(value0, \h01) * 128)
        value == BitOr(value0 \div 2, carry)
        m3 == set_flag(m2, FlagCarry, carry # 0)
        m4 == set_flag(m3, FlagZero, value = \h00)
    IN  [m4 EXCEPT !.val = value]

rrc(m, reg) ==
    LET r == rrc_value(m, register(m, reg))
    IN  Return(set_register(r, reg, r.val), 8)

rrc_mem(m) ==
    LET address == wide_register(m, "HL")
        r0 == bus_read(m, address)
        r == rrc_value(r0, r0.val)
    IN  Return(bus_write(r, address, r.val), 16)

rr_value(m, value0) ==
    LET m1 == set_flag(m, FlagNegative, FALSE)
        m2 == set_flag(m1, FlagHalfCarry, FALSE)
        carry == AsU8(BitAnd(value0, \h01) * 128)
        value == BitOr(value0 \div 2, IF flag(m2, FlagCarry) THEN \h80 ELSE \h00)
        m3 == set_flag(m2, FlagCarry, carry # 0)
        m4 == set_flag(m3, FlagZero, value = \h00)
    IN  [m4 EXCEPT !.val = value]

rr(m, reg) ==
    LET r == rr_value(m, register(m, reg))
    IN  Return(set_register(r, reg, r.val), 8)

rr_mem(m) ==
    LET address == wide_register(m, "HL")
        r0 == bus_read(m, address)
        r == rr_value(r0, r0.val)
    IN  Return(bus_write(r, address, r.val), 16)

rlca(m) ==
    LET r == rlc_value(m, register(m, "A"))
        m1 == set_register(r, "A", r.val)
    IN  Return(set_flag(m1, FlagZero, FALSE), 4)

\* rla without the final clearing of the zero flag
rla_keeps_zero(m) ==
    LET r == rl_value(m, register(m, "A"))
        m1 == set_register(r, "A", r.val)
    IN  Return(m1, 4)

rla(m) ==
    LET r == rl_value(m, register(m, "A"))
        m1 == set_register(r, "A", r.val)
    IN  Return(set_flag(m1, FlagZero, FALSE), 4)

rrca(m) ==
    LET r == rrc_value(m, register(m, "A"))
        m1 == set_register(r, "A", r.val)
    IN  Return(set_flag(m1, FlagZero, FALSE), 4)

rra(m) ==
    LET r == rr_value(m, register(m, "A"))
        m1 == set_register(r, "A", r.val)
    IN  Return(set_flag(m1, FlagZero, FALSE), 4)

sla_value(m, value0) ==
    LET m1 == set_flag(m, FlagNegative, FALSE)
        m2 == set_flag(m1, FlagHalfCarry, FALSE)
        carry == BitAnd(value0, \h80)
        value == AsU8(value0 * 2)
        m3 == set_flag(m2, FlagCarry, carry # 0)
        m4 == set_flag(m3, FlagZero, value = \h00)
    IN  [m4 EXCEPT !.val = value]

sla(m, reg) ==
    LET r == sla_value(m, register(m, reg))
    IN  Return(set_register(r, reg, r.val), 8)

sla_mem(m) ==
    LET address == wide_register(m, "HL")
        r0 == bus_read(m, address)
        r == sla_value(r0, r0.val)
    IN  Return(bus_write(r, address, r.val), 16)

\* (value as i8) >> 1 is the arithmetic shift: it keeps the sign bit
sra_value(m, value0) ==
    LET m1 == set_flag(m, FlagNegative, FALSE)
        m2 == set_flag(m1, FlagHalfCarry, FALSE)
        value == AsI8(value0) \div 2
        m3 == set_flag(m2, FlagCarry, FALSE)
        m4 == set_flag(m3, FlagZero, value = \h00)
    IN  [m4 EXCEPT !.val = AsU8(value)]

sra(m, reg) ==
    LET r == sra_value(m, register(m, reg))
    IN  Return(set_register(r, reg, r.val), 8)

sra_mem(m) ==
    LET address == wide_register(m, "HL")
        r0 == bus_read(m, address)
        r == sra_value(r0, r0.val)
    IN  Return(bus_write(r, address, r.val), 16)

srl_value(m, value0) ==
    LET m1 == set_flag(m, FlagNegative, FALSE)
        m2 == set_flag(m1, FlagHalfCarry, FALSE)
        value == value0 \div 2
        m3 == set_flag(m2, FlagCarry, FALSE)
        m4 == set_flag(m3, FlagZero, value = \h00)
    IN  [m4 EXCEPT !.val = value]

srl(m, reg) ==
    LET r == srl_value(m, register(m, reg))
    IN  Return(set_register(r, reg, r.val), 8)

srl_mem(m) ==
    LET address == wide_register(m, "HL")
        r0 == bus_read(m, address)
        r == srl_value(r0, r0.val)
    IN  Return(bus_write(r, address, r.val), 16)

(***************************************************************************)
(* 16-bit stores and adds, STOP, relative jumps.                           *)
(***************************************************************************)
\* low byte at address, then high byte at address + 1
write_wide(m, address, value) ==
    LET m1 == bus_write(m, address, BitAnd(value, \h00FF))
    IN  bus_write(m1, AsU16(address + 1), BitAnd(value \div 256, \h00FF))

write_stack_immediate(m) ==
    LET r == read_wide(m)
        address == r.val
    IN  Return(write_wide(r, address, r.sp), 12)

\* add_wide with the half-carry taken out of bit 7 instead of bit 11
add_wide_half_carry_bit7(m, reg) ==
    LET hl == m.hl
        value == hl + wide_register(m, reg)
        m1 == set_flag(m, FlagNegative, FALSE)
        m2 == set_flag(m1, FlagCarry, value > \hFFFF)
        m3 == set_flag(m2, FlagHalfCarry, BitAnd(value, \h00FF) < BitAnd(hl, \h00FF))
    IN  Return([m3 EXCEPT !.hl = BitAnd(value, \hFFFF)], 8)

add_wide(m, reg) ==
    LET hl == m.hl
        value == hl + wide_register(m, reg)
        m1 == set_flag(m, FlagNegative, FALSE)
        m2 == set_flag(m1, FlagCarry, value > \hFFFF)
        m3 == set_flag(m2, FlagHalfCarry, BitAnd(value, \h0FFF) < BitAnd(hl, \h0FFF))
    IN  Return([m3 EXCEPT !.hl = BitAnd(value, \hFFFF)], 8)

read_register(m, address, reg) ==
    LET r == bus_read(m, wide_register(m, address))
    IN  Return(set_register(r, reg, r.val), 8)

\* stop without the read of the byte behind the opcode
stop_without_operand(m) ==
    LET m1 == [m EXCEPT !.stopped = TRUE]
    IN  Return(m1, 4)

stop(m) ==
    LET m1 == [m EXCEPT !.stopped = TRUE]
    IN  Return(read(m1), 4)

\* whether the branch condition holds on the current flags
condition_met(m, condition) ==
    CASE condition = "Zero" -> flag(m, FlagZero)
      [] condition = "NotZero" -> ~flag(m, FlagZero)
      [] condition = "Carry" -> flag(m, FlagCarry)
      [] condition = "NotCarry" -> ~flag(m, FlagCarry)

\* the left operand, self.pc, is read before the call of read() advances pc:
\* the offset is added to the address of the operand byte
\* jr adding the offset to pc after the operand has been read
jr_from_next_instruction(m) ==
    LET r == read(m)
        pc == AsU16(r.pc + AsI8(r.val))
    IN  Return([r EXCEPT !.pc = pc], 12)

jr(m) ==
    LET r == read(m)
        pc == AsU16(m.pc + AsI8(r.val))
    IN  Return([r EXCEPT !.pc = pc], 12)

jr_condition(m, condition) ==
    LET r == read(m)
        pc == AsU16(m.pc + AsI8(r.val))
        met == condition_met(r, condition)
    IN  IF met THEN Return([r EXCEPT !.pc = pc], 12)
        ELSE Return(r, 8)

(***************************************************************************)
(* The stack.                                                              *)
(***************************************************************************)
pop_value(m) ==
    LET r == bus_read(m, m.sp)
    IN  [r EXCEPT !.sp = AsU16(@ + 1)]

\* pop_wide_value taking the high byte from the first pop
pop_wide_value_high_byte_first(m) ==
    LET r1 == pop_value(m)
        r2 == pop_value(r1)
    IN  [r2 EXCEPT !.val = BitOr(r2.val, r1.val * 256)]

\* two pops, low byte first; the u16 is m.val
pop_wide_value(m) ==
    LET r1 == pop_value(m)
        r2 == pop_value(r1)
    IN  [r2 EXCEPT !.val = BitOr(r1.val, r2.val * 256)]

push_value(m, value) ==
    LET m1 == bus_write(m, m.sp, value)
    IN  [m1 EXCEPT !.sp = AsU16(@ - 1)]

\* push_wide_value writing the pair at the old stack pointer
push_wide_value_before_decrement(m, value) ==
    LET m1 == write_wide(m, m.sp, value)
    IN  [m1 EXCEPT !.sp = AsU16(@ - 2)]

push_wide_value(m, value) ==
    LET m1 == [m EXCEPT !.sp = AsU16(@ - 2)]
    IN  write_wide(m1, m1.sp, value)

ret(m) ==
    LET r == pop_wide_value(m)
    IN  Return([r EXCEPT !.pc = r.val], 16)

\* ret_condition reporting the cost of the unconditional RET when taken
ret_condition_taken_costs_16(m, condition) ==
    LET met == condition_met(m, condition)
    IN  IF met
        THEN LET r == pop_wide_value(m)
             IN  Return([r EXCEPT !.pc = r.val], 16)
        ELSE Return(m, 8)

ret_condition(m, condition) ==
    LET met == condition_met(m, condition)
    IN  IF met
        THEN LET r == pop_wide_value(m)
             IN  Return([r EXCEPT !.pc = r.val], 20)
        ELSE Return(m, 8)

daa(m) == Unimplemented(m)

scf(m) ==
    LET m1 == set_flag(m, FlagHalfCarry, FALSE)
        m2 == set_flag(m1, FlagNegative, FALSE)
        m3 == set_flag(m2, FlagCarry, TRUE)
    IN  Return(m3, 4)

\* ccf leaving the half-carry flag as it was
ccf_keeps_half_carry(m) ==
    LET m2 == set_flag(m, FlagNegative, FALSE)
        carry == flag(m2, FlagCarry)
    IN  Return(set_flag(m2, FlagCarry, ~carry), 4)

ccf(m) ==
    LET m1 == set_flag(m, FlagHalfCarry, FALSE)
        m2 == set_flag(m1, FlagNegative, FALSE)
        carry == flag(m2, FlagCarry)
        m3 == set_flag(m2, FlagCarry, ~carry)
    IN  Return(m3, 4)

write_a_hli(m) ==
    LET address == wide_register(m, "HL")
        m1 == bus_write(m, address, register(m, "A"))
    IN  Return([m1 EXCEPT !.hl = AsU16(address + 1)], 8)

write_a_hld(m) ==
    LET address == wide_register(m, "HL")
        m1 == bus_write(m, address, register(m, "A"))
    IN  Return([m1 EXCEPT !.hl = AsU16(address - 1)], 8)

read_a_hli(m) ==
    LET address == wide_register(m, "HL")
        r == bus_read(m, address)
        m1 == set_register(r, "A", r.val)
    IN  Return([m1 EXCEPT !.hl = AsU16(address + 1)], 8)

read_a_hld(m) ==
    LET address == wide_register(m, "HL")
        r == bus_read(m, address)
        m1 == set_register(r, "A", r.val)
    IN  Return([m1 EXCEPT !.hl = AsU16(address - 1)], 8)

cpl(m) ==
    LET a == register(m, "A")
    IN  Return(set_register(m, "A", BitNot8(a)), 4)

inc_mem(m) ==
    LET address == wide_register(m, "HL")
        r == bus_read(m, address)
        m1 == set_flag(r, FlagHalfCarry, BitAnd(r.val, \h0F) = \h0F)
        value == AsU8(r.val + 1)
        m2 == bus_write(m1, address, value)
        m3 == set_flag(m2, FlagZero, value = \h00)
        m4 == set_flag(m3, FlagNegative, FALSE)
    IN  Return(m4, 12)

dec_mem(m) ==
    LET address == wide_register(m, "HL")
        r == bus_read(m, address)
        m1 == set_flag(r, FlagHalfCarry, BitAnd(r.val, \h0F) = \h00)
        value == AsU8(r.val - 1)
        m2 == bus_write(m1, address, value)
        m3 == set_flag(m2, FlagZero, value = \h00)
        m4 == set_flag(m3, FlagNegative, TRUE)
    IN  Return(m4, 12)

write_mem_immediate(m) ==
    LET r == read(m)
    IN  Return(bus_write(r, wide_register(r, "HL"), r.val), 12)

write_register_immediate(m, reg) ==
    LET r == read_wide(m)
        address == r.val
        value == register(r, reg)
    IN  Return(bus_write(r, address, value), 16)

read_register_immediate(m, reg) ==
    LET r == read_wide(m)
        address == r.val
        r2 == bus_read(r, address)
    IN  Return(set_register(r2, reg, r2.val), 16)

halt(m) == Return([m EXCEPT !.halted = TRUE], 4)

(***************************************************************************)
(* 8-bit arithmetic and logic on A.                                        *)
(***************************************************************************)
\* add_value with the carry-in left out of the half-carry sum
add_value_half_carry_without_carry_in(m, value, carry0) ==
    LET a == register(m, "A")
        carry == IF carry0 THEN 1 ELSE 0
        overflow == a + value + carry
        m1 == set_flag(m, FlagHalfCarry,
                       (BitAnd(a, \h000F) + BitAnd(value, \h000F)) > \h000F)
        m2 == set_flag(m1, FlagCarry, overflow > \h00FF)
        m3 == set_flag(m2, FlagNegative, FALSE)
        result == BitAnd(overflow, \h00FF)
        m4 == set_register(m3, "A", result)
    IN  set_flag(m4, FlagZero, result = \h00)

add_value(m, value, carry0) ==
    LET a == register(m, "A")
        carry == IF carry0 THEN 1 ELSE 0
        overflow == a + value + carry
        m1 == set_flag(m, FlagHalfCarry,
                       (BitAnd(a, \h000F) + BitAnd(value, \h000F) + carry) > \h000F)
        m2 == set_flag(m1, FlagCarry, overflow > \h00FF)
        m3 == set_flag(m2, FlagNegative, FALSE)
        result == BitAnd(overflow, \h00FF)
        m4 == set_register(m3, "A", result)
    IN  set_flag(m4, FlagZero, result = \h00)

add(m, reg) ==
    LET value == register(m, reg)
    IN  Return(add_value(m, value, FALSE), 4)

add_mem(m) ==
    LET address == wide_register(m, "HL")
        r == bus_read(m, address)
    IN  Return(add_value(r, r.val, FALSE), 8)

add_carry(m, reg) ==
    LET value == register(m, reg)
        carry == flag(m, FlagCarry)
    IN  Return(add_value(m, value, carry), 4)

add_carry_mem(m) ==
    LET address == wide_register(m, "HL")
        r == bus_read(m, address)
        carry == flag(r, FlagCarry)
    IN  Return(add_value(r, r.val, carry), 8)

\* the i16 difference masked with 0x00FF is its low byte in two's complement
\* sub_value with the borrow test of the carry flag made inclusive
sub_value_carry_on_equal(m, value, carry0) ==
    LET a == register(m, "A")
        carry == IF carry0 THEN 1 ELSE 0
        overflow == a - value - carry
        m1 == set_flag(m, FlagHalfCarry,
                       (BitAnd(a, \h000F) - BitAnd(value, \h000F) - carry) < \h0000)
        m2 == set_flag(m1, FlagCarry, overflow <= \h0000)
        m3 == set_flag(m2, FlagNegative, TRUE)
        result == AsU8(overflow)
        m4 == set_register(m3, "A", result)
    IN  set_flag(m4, FlagZero, result = \h00)

sub_value(m, value, carry0) ==
    LET a == register(m, "A")
        carry == IF carry0 THEN 1 ELSE 0
        overflow == a - value - carry
        m1 == set_flag(m, FlagHalfCarry,
                       (BitAnd(a, \h000F) - BitAnd(value, \h000F) - carry) < \h0000)
        m2 == set_flag(m1, FlagCarry, overflow < \h0000)
        m3 == set_flag(m2, FlagNegative, TRUE)
        result == AsU8(overflow)
        m4 == set_register(m3, "A", result)
    IN  set_flag(m4, FlagZero, result = \h00)

sub(m, reg) ==
    LET value == register(m, reg)
    IN  Return(sub_value(m, value, FALSE), 4)

sub_mem(m) ==
    LET address == wide_register(m, "HL")
        r == bus_read(m, address)
    IN  Return(sub_value(r, r.val, FALSE), 8)

sub_carry(m, reg) ==
    LET value == register(m, reg)
        carry == flag(m, FlagCarry)
    IN  Return(sub_value(m, value, carry), 4)

sub_carry_mem(m) ==
    LET address == wide_register(m, "HL")
        r == bus_read(m, address)
        carry == flag(r, FlagCarry)
    IN  Return(sub_value(r, r.val, carry), 8)

and_value(m, value) ==
    LET a == BitAnd(register(m, "A"), value)
        m1 == set_register(m, "A", a)
        m2 == set_flag(m1, FlagZero, a = \h00)
        m3 == set_flag(m2, FlagCarry, FALSE)
        m4 == set_flag(m3, FlagHalfCarry, TRUE)
    IN  set_flag(m4, FlagCarry, FALSE)

and(m, reg) ==
    LET value == register(m, reg)
    IN  Return(and_value(m, value), 4)

and_mem(m) ==
    LET address == wide_register(m, "HL")
        r == bus_read(m, address)
    IN  Return(and_value(r, r.val), 8)

and_immediate(m) ==
    LET r == read(m)
    IN  Return(and_value(r, r.val), 8)

xor_value(m, value) ==
    LET a == BitXor(register(m, "A"), value)
        m1 == set_register(m, "A", a)
        m2 == set_flag(m1, FlagZero, a = \h00)
        m3 == set_flag(m2, FlagCarry, FALSE)
        m4 == set_flag(m3, FlagHalfCarry, FALSE)
    IN  set_flag(m4, FlagCarry, FALSE)

xor(m, reg) ==
    LET value == register(m, reg)
    IN  Return(xor_value(m, value), 4)

xor_mem(m) ==
    LET address == wide_register(m, "HL")
        r == bus_read(m, address)
    IN  Return(xor_value(r, r.val), 8)

xor_immediate(m) ==
    LET r == read(m)
    IN  Return(xor_value(r, r.val), 8)

or_value(m, value) ==
    LET a == BitOr(register(m, "A"), value)
        m1 == set_register(m, "A", a)
        m2 == set_flag(m1, FlagZero, a = \h00)
        m3 == set_flag(m2, FlagCarry, FALSE)
        m4 == set_flag(m3, FlagHalfCarry, FALSE)
    IN  set_flag(m4, FlagCarry, FALSE)

or(m, reg) ==
    LET value == register(m, reg)
    IN  Return(or_value(m, value), 4)

or_mem(m) ==
    LET address == wide_register(m, "HL")
        r == bus_read(m, address)
    IN  Return(or_value(r, r.val), 8)

or_immediate(m) ==
    LET r == read(m)
    IN  Return(or_value(r, r.val), 8)

cp_value(m, value, carry0) ==
    LET a == register(m, "A")
        carry == IF carry0 THEN 1 ELSE 0
        overflow == a - value - carry
        m1 == set_flag(m, FlagHalfCarry,
                       (BitAnd(a, \h000F) - BitAnd(value, \h000F) - carry) < \h0000)
        m2 == set_flag(m1, FlagCarry, overflow < \h0000)
        m3 == set_flag(m2, FlagNegative, TRUE)
        result == AsU8(overflow)
    IN  set_flag(m3, FlagZero, result = \h00)

cp(m, reg) ==
    LET value == register(m, reg)
    IN  Return(cp_value(m, value, FALSE), 4)

cp_mem(m) ==
    LET address == wide_register(m, "HL")
        r == bus_read(m, address)
    IN  Return(cp_value(r, r.val, FALSE), 8)

cp_immediate(m) ==
    LET r == read(m)
    IN  Return(cp_value(r, r.val, FALSE), 8)

(***************************************************************************)
(* Stack instructions, jumps, calls, immediates.                           *)
(***************************************************************************)
pop_wide(m, reg) ==
    LET r == pop_wide_value(m)
    IN  Return(set_wide_register(r, reg, r.val), 12)

push_wide(m, reg) ==
    LET value == wide_register(m, reg)
    IN  Return(push_wide_value(m, value), 16)

jmp(m) ==
    LET r == read_wide(m)
    IN  Return([r EXCEPT !.pc = r.val], 16)

\* jmp_condition reading its operand only when the condition is met
jmp_condition_reads_when_met(m, condition) ==
    LET met == condition_met(m, condition)
    IN  IF met
        THEN LET r == read_wide(m)
             IN  Return([r EXCEPT !.pc = r.val], 16)
        ELSE Return(m, 12)

jmp_condition(m, condition) ==
    LET r == read_wide(m)
        address == r.val
        met == condition_met(r, condition)
    IN  IF met THEN Return([r EXCEPT !.pc = address], 16)
        ELSE Return(r, 12)

\* call reporting four cycles more
call_costs_28(m) ==
    LET r == read_wide(m)
        address == r.val
        m1 == push_wide(r, "PC")
    IN  Return([m1 EXCEPT !.pc = address], 28)

\* call pushing pc before the operand has been read
call_pushes_operand_address(m) ==
    LET m1 == push_wide(m, "PC")
        r == read_wide(m1)
        address == r.val
    IN  Return([r EXCEPT !.pc = address], 24)

call(m) ==
    LET r == read_wide(m)
        address == r.val
        m1 == push_wide(r, "PC")
    IN  Return([m1 EXCEPT !.pc = address], 24)

call_condition(m, condition) ==
    LET r == read_wide(m)
        address == r.val
        met == condition_met(r, condition)
    IN  IF met
        THEN LET m1 == push_wide(r, "PC")
             IN  Return([m1 EXCEPT !.pc = address], 24)
        ELSE Return(r, 12)

add_immediate(m) ==
    LET r == read(m)
    IN  Return(add_value(r, r.val, FALSE), 8)

add_carry_immediate(m) ==
    LET r == read(m)
        carry == flag(r, FlagCarry)
    IN  Return(add_value(r, r.val, carry), 8)

sub_immediate(m) ==
    LET r == read(m)
    IN  Return(sub_value(r, r.val, FALSE), 8)

sub_carry_immediate(m) ==
    LET r == read(m)
        carry == flag(r, FlagCarry)
    IN  Return(sub_value(r, r.val, carry), 8)

rst(m, address) ==
    LET m1 == push_wide(m, "PC")
    IN  Return([m1 EXCEPT !.pc = address], 16)

\* reti returning without setting IME
reti_without_ime(m) == ret(m)

reti(m) ==
    LET m1 == [m EXCEPT !.interrupts_enabled = TRUE]
    IN  ret(m1)

write_high_offset(m, offset, value) ==
    LET address == \hFF00 + offset
    IN  bus_write(m, address, value)

write_high_immediate(m, reg) ==
    LET r == read(m)
        offset == r.val
        value == register(r, reg)
    IN  Return(write_high_offset(r, offset, value), 12)

write_high_register(m, off, reg) ==
    LET offset == register(m, off)
        value == register(m, reg)
    IN  Return(write_high_offset(m, offset, value), 8)

\* the byte read is m.val
read_high_offset(m, offset) ==
    LET address == \hFF00 + offset
    IN  bus_read(m, address)

read_high_immediate(m, reg) ==
    LET r == read(m)
        offset == r.val
        r2 == read_high_offset(r, offset)
    IN  Return(set_register(r2, reg, r2.val), 12)

read_high_register(m, off, reg) ==
    LET offset == register(m, off)
        r == read_high_offset(m, offset)
    IN  Return(set_register(r, reg, r.val), 8)

\* i32 arithmetic: the sum may be negative, and masking it is taking its
\* low bits in two's complement
add_sp(m) ==
    LET sp == m.sp
        r == read(m)
        value == AsI8(r.val)
        overflow == sp + value
        m1 == set_flag(r, FlagNegative, FALSE)
        m2 == set_flag(m1, FlagZero, FALSE)
        m3 == set_flag(m2, FlagHalfCarry, (overflow % 4096) < BitAnd(sp, \h0FFFF))
        m4 == [m3 EXCEPT !.sp = AsU16(overflow)]
        m5 == set_flag(m4, FlagCarry, overflow > \hFFFF)
    IN  Return(m5, 16)

jmp_hl(m) == Unimplemented(m)

di(m) == Return([m EXCEPT !.interrupts_enabled = FALSE], 4)

\* ei leaving IME for a later step to set
ei_delayed(m) == Return(m, 4)

ei(m) == Return([m EXCEPT !.interrupts_enabled = TRUE], 4)

copy_wide_register(m, dest, src) ==
    LET value == wide_register(m, src)
    IN  Return(set_wide_register(m, dest, value), 8)

(***************************************************************************)
(* SWAP and the bit instructions.                                          *)
(***************************************************************************)
\* swap_value leaving the carry flag as it was
swap_value_keeps_carry(m, value0) ==
    LET m2 == set_flag(m, FlagHalfCarry, FALSE)
        m3 == set_flag(m2, FlagNegative, FALSE)
        value == BitOr(BitAnd(AsU8(value0 * 16), \hF0), BitAnd(value0 \div 16, \h0F))
        m4 == set_flag(m3, FlagZero, value = \h00)
    IN  [m4 EXCEPT !.val = value]

swap_value(m, value0) ==
    LET m1 == set_flag(m, FlagCarry, FALSE)
        m2 == set_flag(m1, FlagHalfCarry, FALSE)
        m3 == set_flag(m2, FlagNegative, FALSE)
        value == BitOr(BitAnd(AsU8(value0 * 16), \hF0), BitAnd(value0 \div 16, \h0F))
        m4 == set_flag(m3, FlagZero, value = \h00)
    IN  [m4 EXCEPT !.val = value]

swap(m, reg) ==
    LET r == swap_value(m, register(m, reg))
    IN  Return(set_register(r, reg, r.val), 8)

swap_mem(m) ==
    LET address == wide_register(m, "HL")
        r0 == bus_read(m, address)
        r == swap_value(r0, r0.val)
    IN  Return(bus_write(r, address, r.val), 16)

\* 1 << bit
Shl1(b) == 2 ^ b

\* bit_value with the zero flag set when the tested bit is set
bit_value_zero_inverted(m, b, value) ==
    LET m1 == set_flag(m, FlagNegative, FALSE)
        m2 == set_flag(m1, FlagHalfCarry, TRUE)
    IN  set_flag(m2, FlagZero, BitAnd(value, Shl1(b)) # \h00)

bit_value(m, b, value) ==
    LET m1 == set_flag(m, FlagNegative, FALSE)
        m2 == set_flag(m1, FlagHalfCarry, TRUE)
    IN  set_flag(m2, FlagZero, BitAnd(value, Shl1(b)) = \h00)

bit(m, b, reg) ==
    LET value == register(m, reg)
    IN  Return(bit_value(m, b, value), 8)

bit_mem(m, b) ==
    LET address == wide_register(m, "HL")
        r == bus_read(m, address)
    IN  Return(bit_value(r, b, r.val), 16)

reset_bit_value(m, b, value) == [m EXCEPT !.val = BitAnd(value, BitNot8(Shl1(b)))]

reset_bit(m, b, reg) ==
    LET r == reset_bit_value(m, b, register(m, reg))
    IN  Return(set_register(r, reg, r.val), 8)

reset_bit_mem(m, b) ==
    LET address == wide_register(m, "HL")
        r0 == bus_read(m, address)
        r == reset_bit_value(r0, b, r0.val)
    IN  Return(bus_write(r, address, r.val), 16)

set_bit_value(m, b, value) == [m EXCEPT !.val = BitOr(value, Shl1(b))]

set_bit(m, b, reg) ==
    LET r == set_bit_value(m, b, register(m, reg))
    IN  Return(set_register(r, reg, r.val), 8)

set_bit_mem(m, b) ==
    LET address == wide_register(m, "HL")
        r0 == bus_read(m, address)
        r == set_bit_value(r0, b, r0.val)
    IN  Return(bus_write(r, address, r.val), 16)

(***************************************************************************)
(* Interrupts.                                                             *)
(***************************************************************************)
\* one arm of the else-if chain: rst(vector), IF written back, IME cleared
service_arm(m, if_value, vector, mask) ==
    LET m1 == rst(m, vector)
        m2 == io_write(m1, PortIF, BitXor(if_value, mask))
    IN  [m2 EXCEPT !.interrupts_enabled = FALSE]

\* service_interrupts clearing IME when only bits 5..7 of IE & IF are set
service_interrupts_clears_ime_on_high_bits(m) ==
    IF ~m.interrupts_enabled THEN m
    ELSE LET r1 == io_read(m, PortIF)
             if_value == r1.val
             r2 == io_read(r1, PortIE)
             flags == BitAnd(r2.val, if_value)
         IN  IF flags = \h00 THEN r2
             ELSE IF BitAnd(flags, \h01) # \h00 THEN service_arm(r2, if_value, \h0040, \h01)
             ELSE IF BitAnd(flags, \h02) # \h00 THEN service_arm(r2, if_value, \h0048, \h02)
             ELSE IF BitAnd(flags, \h04) # \h00 THEN service_arm(r2, if_value, \h0050, \h04)
             ELSE IF BitAnd(flags, \h08) # \h00 THEN service_arm(r2, if_value, \h0058, \h08)
             ELSE IF BitAnd(flags, \h10) # \h00 THEN service_arm(r2, if_value, \h0060, \h10)
             ELSE [r2 EXCEPT !.interrupts_enabled = FALSE]

\* service_interrupts with the else-if chain testing the sources in the
\* opposite order (highest bit first)
service_interrupts_highest_first(m) ==
    IF ~m.interrupts_enabled THEN m
    ELSE LET r1 == io_read(m, PortIF)
             if_value == r1.val
             r2 == io_read(r1, PortIE)
             flags == BitAnd(r2.val, if_value)
         IN  IF flags = \h00 THEN r2
             ELSE IF BitAnd(flags, \h10) # \h00 THEN service_arm(r2, if_value, \h0060, \h10)
             ELSE IF BitAnd(flags, \h08) # \h00 THEN service_arm(r2, if_value, \h0058, \h08)
             ELSE IF BitAnd(flags, \h04) # \h00 THEN service_arm(r2, if_value, \h0050, \h04)
             ELSE IF BitAnd(flags, \h02) # \h00 THEN service_arm(r2, if_value, \h0048, \h02)
             ELSE IF BitAnd(flags, \h01) # \h00 THEN service_arm(r2, if_value, \h0040, \h01)
             ELSE r2

service_interrupts(m) ==
    IF ~m.interrupts_enabled THEN m
    ELSE LET r1 == io_read(m, PortIF)
             if_value == r1.val
             r2 == io_read(r1, PortIE)
             flags == BitAnd(r2.val, if_value)
         IN  IF flags = \h00 THEN r2
             ELSE IF BitAnd(flags, \h01) # \h00 THEN service_arm(r2, if_value, \h0040, \h01)
             ELSE IF BitAnd(flags, \h02) # \h00 THEN service_arm(r2, if_value, \h0048, \h02)
             ELSE IF BitAnd(flags, \h04) # \h00 THEN service_arm(r2, if_value, \h0050, \h04)
             ELSE IF BitAnd(flags, \h08) # \h00 THEN service_arm(r2, if_value, \h0058, \h08)
             ELSE IF BitAnd(flags, \h10) # \h00 THEN service_arm(r2, if_value, \h0060, \h10)
             ELSE r2

(***************************************************************************)
(* The CB-prefixed table.                                                  *)
(***************************************************************************)
cb_match(m, opcode) ==
    CASE opcode = \h00 -> rlc(m, "B")
      [] opcode = \h01 -> rlc(m, "C")
      [] opcode = \h02 -> rlc(m, "D")
      [] opcode = \h03 -> rlc(m, "E")
      [] opcode = \h04 -> rlc(m, "H")
      [] opcode = \h05 -> rlc(m, "L")
      [] opcode = \h06 -> rlc_mem(m)
      [] opcode = \h07 -> rlc(m, "A")
      [] opcode = \h08 -> rrc(m, "B")
      [] opcode = \h09 -> rrc(m, "C")
      [] opcode = \h0A -> rrc(m, "D")
      [] opcode = \h0B -> rrc(m, "E")
      [] opcode = \h0C -> rrc(m, "H")
      [] opcode = \h0D -> rrc(m, "L")
      [] opcode = \h0E -> rrc_mem(m)
      [] opcode = \h0F -> rrc(m, "A")
      [] opcode = \h10 -> rl(m, "B")
      [] opcode = \h11 -> rl(m, "C")
      [] opcode = \h12 -> rl(m, "D")
      [] opcode = \h13 -> rl(m, "E")
      [] opcode = \h14 -> rl(m, "H")
      [] opcode = \h15 -> rl(m, "L")
      [] opcode = \h16 -> rl_mem(m)
      [] opcode = \h17 -> rl(m, "A")
      [] opcode = \h18 -> rr(m, "B")
      [] opcode = \h19 -> rr(m, "C")
      [] opcode = \h1A -> rr(m, "D")
      [] opcode = \h1B -> rr(m, "E")
      [] opcode = \h1C -> rr(m, "H")
      [] opcode = \h1D -> rr(m, "L")
      [] opcode = \h1E -> rr_mem(m)
      [] opcode = \h1F -> rr(m, "A")
      [] opcode = \h20 -> sla(m, "B")
      [] opcode = \h21 -> sla(m, "C")
      [] opcode = \h22 -> sla(m, "D")
      [] opcode = \h23 -> sla(m, "E")
      [] opcode = \h24 -> sla(m, "H")
      [] opcode = \h25 -> sla(m, "L")
      [] opcode = \h26 -> sla_mem(m)
      [] opcode = \h27 -> sla(m, "A")
      [] opcode = \h28 -> sra(m, "B")
      [] opcode = \h29 -> sra(m, "C")
      [] opcode = \h2A -> sra(m, "D")
      [] opcode = \h2B -> sra(m, "E")
      [] opcode = \h2C -> sra(m, "H")
      [] opcode = \h2D -> sra(m, "L")
      [] opcode = \h2E -> sra_mem(m)
      [] opcode = \h2F -> sra(m, "A")
      [] opcode = \h30 -> swap(m, "B")
      [] opcode = \h31 -> swap(m, "C")
      [] opcode = \h32 -> swap(m, "D")
      [] opcode = \h33 -> swap(m, "E")
      [] opcode = \h34 -> swap(m, "H")
      [] opcode = \h35 -> swap(m, "L")
      [] opcode = \h36 -> swap_mem(m)
      [] opcode = \h37 -> swap(m, "A")
      [] opcode = \h38 -> srl(m, "B")
      [] opcode = \h39 -> srl(m, "C")
      [] opcode = \h3A -> srl(m, "D")
      [] opcode = \h3B -> srl(m, "E")
      [] opcode = \h3C -> srl(m, "H")
      [] opcode = \h3D -> srl(m, "L")
      [] opcode = \h3E -> srl_mem(m)
      [] opcode = \h3F -> srl(m, "A")
      [] opcode = \h40 -> bit(m, \h00, "B")
      [] opcode = \h41 -> bit(m, \h00, "C")
      [] opcode = \h42 -> bit(m, \h00, "D")
      [] opcode = \h43 -> bit(m, \h00, "E")
      [] opcode = \h44 -> bit(m, \h00, "H")
      [] opcode = \h45 -> bit(m, \h00, "L")
      [] opcode = \h46 -> bit_mem(m, \h00)
      [] opcode = \h47 -> bit(m, \h00, "A")
      [] opcode = \h48 -> bit(m, \h01, "B")
      [] opcode = \h49 -> bit(m, \h01, "C")
      [] opcode = \h4A -> bit(m, \h01, "D")
      [] opcode = \h4B -> bit(m, \h01, "E")
      [] opcode = \h4C -> bit(m, \h01, "H")
      [] opcode = \h4D -> bit(m, \h01, "L")
      [] opcode = \h4E -> bit_mem(m, \h01)
      [] opcode = \h4F -> bit(m, \h01, "A")
      [] opcode = \h50 -> bit(m, \h02, "B")
      [] opcode = \h51 -> bit(m, \h02, "C")
      [] opcode = \h52 -> bit(m, \h02, "D")
      [] opcode = \h53 -> bit(m, \h02, "E")
      [] opcode = \h54 -> bit(m, \h02, "H")
      [] opcode = \h55 -> bit(m, \h02, "L")
      [] opcode = \h56 -> bit_mem(m, \h02)
      [] opcode = \h57 -> bit(m, \h02, "A")
      [] opcode = \h58 -> bit(m, \h03, "B")
      [] opcode = \h59 -> bit(m, \h03, "C")
      [] opcode = \h5A -> bit(m, \h03, "D")
      [] opcode = \h5B -> bit(m, \h03, "E")
      [] opcode = \h5C -> bit(m, \h03, "H")
      [] opcode = \h5D -> bit(m, \h03, "L")
      [] opcode = \h5E -> bit_mem(m, \h03)
      [] opcode = \h5F -> bit(m, \h03, "A")
      [] opcode = \h60 -> bit(m, \h04, "B")
      [] opcode = \h61 -> bit(m, \h04, "C")
      [] opcode = \h62 -> bit(m, \h04, "D")
      [] opcode = \h63 -> bit(m, \h04, "E")
      [] opcode = \h64 -> bit(m, \h04, "H")
      [] opcode = \h65 -> bit(m, \h04, "L")
      [] opcode = \h66 -> bit_mem(m, \h04)
      [] opcode = \h67 -> bit(m, \h04, "A")
      [] opcode = \h68 -> bit(m, \h05, "B")
      [] opcode = \h69 -> bit(m, \h05, "C")
      [] opcode = \h6A -> bit(m, \h05, "D")
      [] opcode = \h6B -> bit(m, \h05, "E")
      [] opcode = \h6C -> bit(m, \h05, "H")
      [] opcode = \h6D -> bit(m, \h05, "L")
      [] opcode = \h6E -> bit_mem(m, \h05)
      [] opcode = \h6F -> bit(m, \h05, "A")
      [] opcode = \h70 -> bit(m, \h06, "B")
      [] opcode = \h71 -> bit(m, \h06, "C")
      [] opcode = \h72 -> bit(m, \h06, "D")
      [] opcode = \h73 -> bit(m, \h06, "E")
      [] opcode = \h74 -> bit(m, \h06, "H")
      [] opcode = \h75 -> bit(m, \h06, "L")
      [] opcode = \h76 -> bit_mem(m, \h06)
      [] opcode = \h77 -> bit(m, \h06, "A")
      [] opcode = \h78 -> bit(m, \h07, "B")
      [] opcode = \h79 -> bit(m, \h07, "C")
      [] opcode = \h7A -> bit(m, \h07, "D")
      [] opcode = \h7B -> bit(m, \h07, "E")
      [] opcode = \h7C -> bit(m, \h07, "H")
      [] opcode = \h7D -> bit(m, \h07, "L")
      [] opcode = \h7E -> bit_mem(m, \h07)
      [] opcode = \h7F -> bit(m, \h07, "A")
      [] opcode = \h80 -> reset_bit(m, \h00, "B")
      [] opcode = \h81 -> reset_bit(m, \h00, "C")
      [] opcode = \h82 -> reset_bit(m, \h00, "D")
      [] opcode = \h83 -> reset_bit(m, \h00, "E")
      [] opcode = \h84 -> reset_bit(m, \h00, "H")
      [] opcode = \h85 -> reset_bit(m, \h00, "L")
      [] opcode = \h86 -> reset_bit_mem(m, \h00)
      [] opcode = \h87 -> reset_bit(m, \h00, "A")
      [] opcode = \h88 -> reset_bit(m, \h01, "B")
      [] opcode = \h89 -> reset_bit(m, \h01, "C")
      [] opcode = \h8A -> reset_bit(m, \h01, "D")
      [] opcode = \h8B -> reset_bit(m, \h01, "E")
      [] opcode = \h8C -> reset_bit(m, \h01, "H")
      [] opcode = \h8D -> reset_bit(m, \h01, "L")
      [] opcode = \h8E -> reset_bit_mem(m, \h01)
      [] opcode = \h8F -> reset_bit(m, \h01, "A")
      [] opcode = \h90 -> reset_bit(m, \h02, "B")
      [] opcode = \h91 -> reset_bit(m, \h02, "C")
      [] opcode = \h92 -> reset_bit(m, \h02, "D")
      [] opcode = \h93 -> reset_bit(m, \h02, "E")
      [] opcode = \h94 -> reset_bit(m, \h02, "H")
      [] opcode = \h95 -> reset_bit(m, \h02, "L")
      [] opcode = \h96 -> reset_bit_mem(m, \h02)
      [] opcode = \h97 -> reset_bit(m, \h02, "A")
      [] opcode = \h98 -> reset_bit(m, \h03, "B")
      [] opcode = \h99 -> reset_bit(m, \h03, "C")
      [] opcode = \h9A -> reset_bit(m, \h03, "D")
      [] opcode = \h9B -> reset_bit(m, \h03, "E")
      [] opcode = \h9C -> reset_bit(m, \h03, "H")
      [] opcode = \h9D -> reset_bit(m, \h03, "L")
      [] opcode = \h9E -> reset_bit_mem(m, \h03)
      [] opcode = \h9F -> reset_bit(m, \h03, "A")
      [] opcode = \hA0 -> reset_bit(m, \h04, "B")
      [] opcode = \hA1 -> reset_bit(m, \h04, "C")
      [] opcode = \hA2 -> reset_bit(m, \h04, "D")
      [] opcode = \hA3 -> reset_bit(m, \h04, "E")
      [] opcode = \hA4 -> reset_bit(m, \h04, "H")
      [] opcode = \hA5 -> reset_bit(m, \h04, "L")
      [] opcode = \hA6 -> reset_bit_mem(m, \h04)
      [] opcode = \hA7 -> reset_bit(m, \h04, "A")
      [] opcode = \hA8 -> reset_bit(m, \h05, "B")
      [] opcode = \hA9 -> reset_bit(m, \h05, "C")
      [] opcode = \hAA -> reset_bit(m, \h05, "D")
      [] opcode = \hAB -> reset_bit(m, \h05, "E")
      [] opcode = \hAC -> reset_bit(m, \h05, "H")
      [] opcode = \hAD -> reset_bit(m, \h05, "L")
      [] opcode = \hAE -> reset_bit_mem(m, \h05)
      [] opcode = \hAF -> reset_bit(m, \h05, "A")
      [] opcode = \hB0 -> reset_bit(m, \h06, "B")
      [] opcode = \hB1 -> reset_bit(m, \h06, "C")
      [] opcode = \hB2 -> reset_bit(m, \h06, "D")
      [] opcode = \hB3 -> reset_bit(m, \h06, "E")
      [] opcode = \hB4 -> reset_bit(m, \h06, "H")
      [] opcode = \hB5 -> reset_bit(m, \h06, "L")
      [] opcode = \hB6 -> reset_bit_mem(m, \h06)
      [] opcode = \hB7 -> reset_bit(m, \h06, "A")
      [] opcode = \hB8 -> reset_bit(m, \h07, "B")
      [] opcode = \hB9 -> reset_bit(m, \h07, "C")
      [] opcode = \hBA -> reset_bit(m, \h07, "D")
      [] opcode = \hBB -> reset_bit(m, \h07, "E")
      [] opcode = \hBC -> reset_bit(m, \h07, "H")
      [] opcode = \hBD -> reset_bit(m, \h07, "L")
      [] opcode = \hBE -> reset_bit_mem(m, \h07)
      [] opcode = \hBF -> reset_bit(m, \h07, "A")
      [] opcode = \hC0 -> set_bit(m, \h00, "B")
      [] opcode = \hC1 -> set_bit(m, \h00, "C")
      [] opcode = \hC2 -> set_bit(m, \h00, "D")
      [] opcode = \hC3 -> set_bit(m, \h00, "E")
      [] opcode = \hC4 -> set_bit(m, \h00, "H")
      [] opcode = \hC5 -> set_bit(m, \h00, "L")
      [] opcode = \hC6 -> set_bit_mem(m, \h00)
      [] opcode = \hC7 -> set_bit(m, \h00, "A")
      [] opcode = \hC8 -> set_bit(m, \h01, "B")
      [] opcode = \hC9 -> set_bit(m, \h01, "C")
      [] opcode = \hCA -> set_bit(m, \h01, "D")
      [] opcode = \hCB -> set_bit(m, \h01, "E")
      [] opcode = \hCC -> set_bit(m, \h01, "H")
      [] opcode = \hCD -> set_bit(m, \h01, "L")
      [] opcode = \hCE -> set_bit_mem(m, \h01)
      [] opcode = \hCF -> set_bit(m, \h01, "A")
      [] opcode = \hD0 -> set_bit(m, \h02, "B")
      [] opcode = \hD1 -> set_bit(m, \h02, "C")
      [] opcode = \hD2 -> set_bit(m, \h02, "D")
      [] opcode = \hD3 -> set_bit(m, \h02, "E")
      [] opcode = \hD4 -> set_bit(m, \h02, "H")
      [] opcode = \hD5 -> set_bit(m, \h02, "L")
      [] opcode = \hD6 -> set_bit_mem(m, \h02)
      [] opcode = \hD7 -> set_bit(m, \h02, "A")
      [] opcode = \hD8 -> set_bit(m, \h03, "B")
      [] opcode = \hD9 -> set_bit(m, \h03, "C")
      [] opcode = \hDA -> set_bit(m, \h03, "D")
      [] opcode = \hDB -> set_bit(m, \h03, "E")
      [] opcode = \hDC -> set_bit(m, \h03, "H")
      [] opcode = \hDD -> set_bit(m, \h03, "L")
      [] opcode = \hDE -> set_bit_mem(m, \h03)
      [] opcode = \hDF -> set_bit(m, \h03, "A")
      [] opcode = \hE0 -> set_bit(m, \h04, "B")
      [] opcode = \hE1 -> set_bit(m, \h04, "C")
      [] opcode = \hE2 -> set_bit(m, \h04, "D")
      [] opcode = \hE3 -> set_bit(m, \h04, "E")
      [] opcode = \hE4 -> set_bit(m, \h04, "H")
      [] opcode = \hE5 -> set_bit(m, \h04, "L")
      [] opcode = \hE6 -> set_bit_mem(m, \h04)
      [] opcode = \hE7 -> set_bit(m, \h04, "A")
      [] opcode = \hE8 -> set_bit(m, \h05, "B")
      [] opcode = \hE9 -> set_bit(m, \h05, "C")
      [] opcode = \hEA -> set_bit(m, \h05, "D")
      [] opcode = \hEB -> set_bit(m, \h05, "E")
      [] opcode = \hEC -> set_bit(m, \h05, "H")
      [] opcode = \hED -> set_bit(m, \h05, "L")
      [] opcode = \hEE -> set_bit_mem(m, \h05)
      [] opcode = \hEF -> set_bit(m, \h05, "A")
      [] opcode = \hF0 -> set_bit(m, \h06, "B")
      [] opcode = \hF1 -> set_bit(m, \h06, "C")
      [] opcode = \hF2 -> set_bit(m, \h06, "D")
      [] opcode = \hF3 -> set_bit(m, \h06, "E")
      [] opcode = \hF4 -> set_bit(m, \h06, "H")
      [] opcode = \hF5 -> set_bit(m, \h06, "L")
      [] opcode = \hF6 -> set_bit_mem(m, \h06)
      [] opcode = \hF7 -> set_bit(m, \h06, "A")
      [] opcode = \hF8 -> set_bit(m, \h07, "B")
      [] opcode = \hF9 -> set_bit(m, \h07, "C")
      [] opcode = \hFA -> set_bit(m, \h07, "D")
      [] opcode = \hFB -> set_bit(m, \h07, "E")
      [] opcode = \hFC -> set_bit(m, \h07, "H")
      [] opcode = \hFD -> set_bit(m, \h07, "L")
      [] opcode = \hFE -> set_bit_mem(m, \h07)
      [] opcode = \hFF -> set_bit(m, \h07, "A")

\* cb selecting the neighbouring operand column of the table
cb_neighbouring_operand(m) ==
    LET r == read(m)
    IN  cb_match(r, BitXor(r.val, 1))

cb(m) ==
    LET r == read(m)
    IN  cb_match(r, r.val)

(***************************************************************************)
(* The primary table and Cpu::cycle.                                       *)
(***************************************************************************)
cycle_match(m, opcode) ==
    CASE opcode = \h00 -> nop(m)
      [] opcode = \h01 -> read_wide_immediate(m, "BC")
      [] opcode = \h02 -> write_register(m, "BC", "A")
      [] opcode = \h03 -> inc_wide(m, "BC")
      [] opcode = \h04 -> inc(m, "B")
      [] opcode = \h05 -> dec(m, "B")
      [] opcode = \h06 -> read_immediate(m, "B")
      [] opcode = \h07 -> rlca(m)
      [] opcode = \h08 -> write_stack_immediate(m)
      [] opcode = \h09 -> add_wide(m, "BC")
      [] opcode = \h0A -> read_register(m, "BC", "A")
      [] opcode = \h0B -> dec_wide(m, "BC")
      [] opcode = \h0C -> inc(m, "C")
      [] opcode = \h0D -> dec(m, "C")
      [] opcode = \h0E -> read_immediate(m, "C")
      [] opcode = \h0F -> rrca(m)
      [] opcode = \h10 -> stop(m)
      [] opcode = \h11 -> read_wide_immediate(m, "DE")
      [] opcode = \h12 -> write_register(m, "DE", "A")
      [] opcode = \h13 -> inc_wide(m, "DE")
      [] opcode = \h14 -> inc(m, "D")
      [] opcode = \h15 -> dec(m, "D")
      [] opcode = \h16 -> read_immediate(m, "D")
      [] opcode = \h17 -> rla(m)
      [] opcode = \h18 -> jr(m)
      [] opcode = \h19 -> add_wide(m, "DE")
      [] opcode = \h1A -> read_register(m, "DE", "A")
      [] opcode = \h1B -> dec_wide(m, "DE")
      [] opcode = \h1C -> inc(m, "E")
      [] opcode = \h1D -> dec(m, "E")
      [] opcode = \h1E -> read_immediate(m, "E")
      [] opcode = \h1F -> rra(m)
      [] opcode = \h20 -> jr_condition(m, "NotZero")
      [] opcode = \h21 -> read_wide_immediate(m, "HL")
      [] opcode = \h22 -> write_a_hli(m)
      [] opcode = \h23 -> inc_wide(m, "HL")
      [] opcode = \h24 -> inc(m, "H")
      [] opcode = \h25 -> dec(m, "H")
      [] opcode = \h26 -> read_immediate(m, "H")
      [] opcode = \h27 -> daa(m)
      [] opcode = \h28 -> jr_condition(m, "Zero")
      [] opcode = \h29 -> add_wide(m, "HL")
      [] opcode = \h2A -> read_a_hli(m)
      [] opcode = \h2B -> dec_wide(m, "HL")
      [] opcode = \h2C -> inc(m, "L")
      [] opcode = \h2D -> dec(m, "L")
      [] opcode = \h2E -> read_immediate(m, "L")
      [] opcode = \h2F -> cpl(m)
      [] opcode = \h30 -> jr_condition(m, "NotCarry")
      [] opcode = \h31 -> read_wide_immediate(m, "SP")
      [] opcode = \h32 -> write_a_hld(m)
      [] opcode = \h33 -> inc_wide(m, "SP")
      [] opcode = \h34 -> inc_mem(m)
      [] opcode = \h35 -> dec_mem(m)
      [] opcode = \h36 -> write_mem_immediate(m)
      [] opcode = \h37 -> scf(m)
      [] opcode = \h38 -> jr_condition(m, "Carry")
      [] opcode = \h39 -> add_wide(m, "SP")
      [] opcode = \h3A -> read_a_hld(m)
      [] opcode = \h3B -> dec_wide(m, "SP")
      [] opcode = \h3C -> inc(m, "A")
      [] opcode = \h3D -> dec(m, "A")
      [] opcode = \h3E -> read_immediate(m, "A")
      [] opcode = \h3F -> ccf(m)
      [] opcode = \h40 -> copy_register(m, "B", "B")
      [] opcode = \h41 -> copy_register(m, "B", "C")
      [] opcode = \h42 -> copy_register(m, "B", "D")
      [] opcode = \h43 -> copy_register(m, "B", "E")
      [] opcode = \h44 -> copy_register(m, "B", "H")
      [] opcode = \h45 -> copy_register(m, "B", "L")
      [] opcode = \h46 -> read_register(m, "HL", "B")
      [] opcode = \h47 -> copy_register(m, "B", "A")
      [] opcode = \h48 -> copy_register(m, "C", "B")
      [] opcode = \h49 -> copy_register(m, "C", "C")
      [] opcode = \h4A -> copy_register(m, "C", "D")
      [] opcode = \h4B -> copy_register(m, "C", "E")
      [] opcode = \h4C -> copy_register(m, "C", "H")
      [] opcode = \h4D -> copy_register(m, "C", "L")
      [] opcode = \h4E -> read_register(m, "HL", "C")
      [] opcode = \h4F -> copy_register(m, "C", "A")
      [] opcode = \h50 -> copy_register(m, "D", "B")
      [] opcode = \h51 -> copy_register(m, "D", "C")
      [] opcode = \h52 -> copy_register(m, "D", "D")
      [] opcode = \h53 -> copy_register(m, "D", "E")
      [] opcode = \h54 -> copy_register(m, "D", "H")
      [] opcode = \h55 -> copy_register(m, "D", "L")
      [] opcode = \h56 -> read_register(m, "HL", "D")
      [] opcode = \h57 -> copy_register(m, "D", "A")
      [] opcode = \h58 -> copy_register(m, "E", "B")
      [] opcode = \h59 -> copy_register(m, "E", "C")
      [] opcode = \h5A -> copy_register(m, "E", "D")
      [] opcode = \h5B -> copy_register(m, "E", "E")
      [] opcode = \h5C -> copy_register(m, "E", "H")
      [] opcode = \h5D -> copy_register(m, "E", "L")
      [] opcode = \h5E -> read_register(m, "HL", "E")
      [] opcode = \h5F -> copy_register(m, "E", "A")
      [] opcode = \h60 -> copy_register(m, "H", "B")
      [] opcode = \h61 -> copy_register(m, "H", "C")
      [] opcode = \h62 -> copy_register(m, "H", "D")
      [] opcode = \h63 -> copy_register(m, "H", "E")
      [] opcode = \h64 -> copy_register(m, "H", "H")
      [] opcode = \h65 -> copy_register(m, "H", "L")
      [] opcode = \h66 -> read_register(m, "HL", "H")
      [] opcode = \h67 -> copy_register(m, "H", "A")
      [] opcode = \h68 -> copy_register(m, "L", "B")
      [] opcode = \h69 -> copy_register(m, "L", "C")
      [] opcode = \h6A -> copy_register(m, "L", "D")
      [] opcode = \h6B -> copy_register(m, "L", "E")
      [] opcode = \h6C -> copy_register(m, "L", "H")
      [] opcode = \h6D -> copy_register(m, "L", "L")
      [] opcode = \h6E -> read_register(m, "HL", "L")
      [] opcode = \h6F -> copy_register(m, "L", "A")
      [] opcode = \h70 -> write_register(m, "HL", "B")
      [] opcode = \h71 -> write_register(m, "HL", "C")
      [] opcode = \h72 -> write_register(m, "HL", "D")
      [] opcode = \h73 -> write_register(m, "HL", "E")
      [] opcode = \h74 -> write_register(m, "HL", "H")
      [] opcode = \h75 -> write_register(m, "HL", "L")
      [] opcode = \h76 -> halt(m)
      [] opcode = \h77 -> write_register(m, "HL", "A")
      [] opcode = \h78 -> copy_register(m, "A", "B")
      [] opcode = \h79 -> copy_register(m, "A", "C")
      [] opcode = \h7A -> copy_register(m, "A", "D")
      [] opcode = \h7B -> copy_register(m, "A", "E")
      [] opcode = \h7C -> copy_register(m, "A", "H")
      [] opcode = \h7D -> copy_register(m, "A", "L")
      [] opcode = \h7E -> read_register(m, "HL", "A")
      [] opcode = \h7F -> copy_register(m, "A", "A")
      [] opcode = \h80 -> add(m, "B")
      [] opcode = \h81 -> add(m, "C")
      [] opcode = \h82 -> add(m, "D")
      [] opcode = \h83 -> add(m, "E")
      [] opcode = \h84 -> add(m, "H")
      [] opcode = \h85 -> add(m, "L")
      [] opcode = \h86 -> add_mem(m)
      [] opcode = \h87 -> add(m, "A")
      [] opcode = \h88 -> add_carry(m, "B")
      [] opcode = \h89 -> add_carry(m, "C")
      [] opcode = \h8A -> add_carry(m, "D")
      [] opcode = \h8B -> add_carry(m, "E")
      [] opcode = \h8C -> add_carry(m, "H")
      [] opcode = \h8D -> add_carry(m, "L")
      [] opcode = \h8E -> add_carry_mem(m)
      [] opcode = \h8F -> add_carry(m, "A")
      [] opcode = \h90 -> sub(m, "B")
      [] opcode = \h91 -> sub(m, "C")
      [] opcode = \h92 -> sub(m, "D")
      [] opcode = \h93 -> sub(m, "E")
      [] opcode = \h94 -> sub(m, "H")
      [] opcode = \h95 -> sub(m, "L")
      [] opcode = \h96 -> sub_mem(m)
      [] opcode = \h97 -> sub(m, "A")
      [] opcode = \h98 -> sub_carry(m, "B")
      [] opcode = \h99 -> sub_carry(m, "C")
      [] opcode = \h9A -> sub_carry(m, "D")
      [] opcode = \h9B -> sub_carry(m, "E")
      [] opcode = \h9C -> sub_carry(m, "H")
      [] opcode = \h9D -> sub_carry(m, "L")
      [] opcode = \h9E -> sub_carry_mem(m)
      [] opcode = \h9F -> sub_carry(m, "A")
      [] opcode = \hA0 -> and(m, "B")
      [] opcode = \hA1 -> and(m, "C")
      [] opcode = \hA2 -> and(m, "D")
      [] opcode = \hA3 -> and(m, "E")
      [] opcode = \hA4 -> and(m, "H")
      [] opcode = \hA5 -> and(m, "L")
      [] opcode = \hA6 -> and_mem(m)
      [] opcode = \hA7 -> and(m, "A")
      [] opcode = \hA8 -> xor(m, "B")
      [] opcode = \hA9 -> xor(m, "C")
      [] opcode = \hAA -> xor(m, "D")
      [] opcode = \hAB -> xor(m, "E")
      [] opcode = \hAC -> xor(m, "H")
      [] opcode = \hAD -> xor(m, "L")
      [] opcode = \hAE -> xor_mem(m)
      [] opcode = \hAF -> xor(m, "A")
      [] opcode = \hB0 -> or(m, "B")
      [] opcode = \hB1 -> or(m, "C")
      [] opcode = \hB2 -> or(m, "D")
      [] opcode = \hB3 -> or(m, "E")
      [] opcode = \hB4 -> or(m, "H")
      [] opcode = \hB5 -> or(m, "L")
      [] opcode = \hB6 -> or_mem(m)
      [] opcode = \hB7 -> or(m, "A")
      [] opcode = \hB8 -> cp(m, "B")
      [] opcode = \hB9 -> cp(m, "C")
      [] opcode = \hBA -> cp(m, "D")
      [] opcode = \hBB -> cp(m, "E")
      [] opcode = \hBC -> cp(m, "H")
      [] opcode = \hBD -> cp(m, "L")
      [] opcode = \hBE -> cp_mem(m)
      [] opcode = \hBF -> cp(m, "A")
      [] opcode = \hC0 -> ret_condition(m, "NotZero")
      [] opcode = \hC1 -> pop_wide(m, "BC")
      [] opcode = \hC2 -> jmp_condition(m, "NotZero")
      [] opcode = \hC3 -> jmp(m)
      [] opcode = \hC4 -> call_condition(m, "NotZero")
      [] opcode = \hC5 -> push_wide(m, "BC")
      [] opcode = \hC6 -> add_immediate(m)
      [] opcode = \hC7 -> rst(m, \h0000)
      [] opcode = \hC8 -> ret_condition(m, "Zero")
      [] opcode = \hC9 -> ret(m)
      [] opcode = \hCA -> jmp_condition(m, "Zero")
      [] opcode = \hCB -> cb(m)
      [] opcode = \hCC -> call_condition(m, "Zero")
      [] opcode = \hCD -> call(m)
      [] opcode = \hCE -> add_carry_immediate(m)
      [] opcode = \hCF -> rst(m, \h0008)
      [] opcode = \hD0 -> ret_condition(m, "NotCarry")
      [] opcode = \hD1 -> pop_wide(m, "DE")
      [] opcode = \hD2 -> jmp_condition(m, "NotCarry")
      [] opcode = \hD3 -> Unimplemented(m)
      [] opcode = \hD4 -> call_condition(m, "NotCarry")
      [] opcode = \hD5 -> push_wide(m, "DE")
      [] opcode = \hD6 -> sub_immediate(m)
      [] opcode = \hD7 -> rst(m, \h0010)
      [] opcode = \hD8 -> ret_condition(m, "Carry")
      [] opcode = \hD9 -> reti(m)
      [] opcode = \hDA -> jmp_condition(m, "Carry")
      [] opcode = \hDB -> Unimplemented(m)
      [] opcode = \hDC -> call_condition(m, "Carry")
      [] opcode = \hDD -> Unimplemented(m)
      [] opcode = \hDE -> sub_carry_immediate(m)
      [] opcode = \hDF -> rst(m, \h0018)
      [] opcode = \hE0 -> write_high_immediate(m, "A")
      [] opcode = \hE1 -> pop_wide(m, "HL")
      [] opcode = \hE2 -> write_high_register(m, "C", "A")
      [] opcode = \hE3 -> Unimplemented(m)
      [] opcode = \hE4 -> Unimplemented(m)
      [] opcode = \hE5 -> push_wide(m, "HL")
      [] opcode = \hE6 -> and_immediate(m)
      [] opcode = \hE7 -> rst(m, \h0020)
      [] opcode = \hE8 -> add_sp(m)
      [] opcode = \hE9 -> jmp_hl(m)
      [] opcode = \hEA -> write_register_immediate(m, "A")
      [] opcode = \hEB -> Unimplemented(m)
      [] opcode = \hEC -> Unimplemented(m)
      [] opcode = \hED -> Unimplemented(m)
      [] opcode = \hEE -> xor_immediate(m)
      [] opcode = \hEF -> rst(m, \h0028)
      [] opcode = \hF0 -> read_high_immediate(m, "A")
      [] opcode = \hF1 -> pop_wide(m, "AF")
      [] opcode = \hF2 -> read_high_register(m, "C", "A")
      [] opcode = \hF3 -> di(m)
      [] opcode = \hF4 -> Unimplemented(m)
      [] opcode = \hF5 -> push_wide(m, "AF")
      [] opcode = \hF6 -> or_immediate(m)
      [] opcode = \hF7 -> rst(m, \h0030)
      [] opcode = \hF8 -> Unimplemented(m)
      [] opcode = \hF9 -> copy_wide_register(m, "SP", "HL")
      [] opcode = \hFA -> read_register_immediate(m, "A")
      [] opcode = \hFB -> ei(m)
      [] opcode = \hFC -> Unimplemented(m)
      [] opcode = \hFD -> Unimplemented(m)
      [] opcode = \hFE -> cp_immediate(m)
      [] opcode = \hFF -> rst(m, \h0038)

\* cycle idling while stopped is set, as it does while halted is
cycle_idles_when_stopped(m) ==
    IF m.halted \/ m.stopped THEN Return(m, 4)
    ELSE LET s == service_interrupts(m)
             r == read(s)
         IN  cycle_match(r, r.val)

\* cycle servicing interrupts before it tests halted
cycle_halted_services_interrupts(m) ==
    LET s == service_interrupts(m)
    IN  IF s.halted THEN Return(s, 4)
        ELSE LET r == read(s)
             IN  cycle_match(r, r.val)

\* A halted Cpu returns 4 at once.  Otherwise interrupts are serviced, and
\* then the opcode at pc is fetched and executed, whether or not an
\* interrupt was dispatched.  A handler that panics ends the call.
cycle(m) ==
    IF m.halted THEN Return(m, 4)
    ELSE LET s == service_interrupts(m)
             r == read(s)
         IN  cycle_match(r, r.val)

(***************************************************************************)
(* The state machine.                                                      *)
(***************************************************************************)
\* #[derive(Default)]: every register zero, every mode flag false
CpuDefault ==
    [pc |-> 0, sp |-> 0, af |-> 0, bc |-> 0, de |-> 0, hl |-> 0,
     interrupts_enabled |-> FALSE, stopped |-> FALSE, halted |-> FALSE]

\* the machine a cycle() call starts from: the Cpu, the bus it borrows
Machine(c, mem) ==
    [pc |-> c.pc, sp |-> c.sp, af |-> c.af, bc |-> c.bc, de |-> c.de, hl |-> c.hl,
     interrupts_enabled |-> c.interrupts_enabled, stopped |-> c.stopped,
     halted |-> c.halted,
     mmu |-> mem, bus |-> <<>>, val |-> 0, ret |-> 0, fault |-> "none"]

\* the Cpu struct of a machine
CpuOf(m) ==
    [pc |-> m.pc, sp |-> m.sp, af |-> m.af, bc |-> m.bc, de |-> m.de, hl |-> m.hl,
     interrupts_enabled |-> m.interrupts_enabled, stopped |-> m.stopped,
     halted |-> m.halted]

\* the state before the first cycle() call, for a Cpu c on a bus mem
Start(c, mem) ==
    /\ cpu = c
    /\ mmu = mem
    /\ cycles = 0
    /\ fault = "none"
    /\ bus = <<>>
    /\ pre = [cpu |-> c, mmu |-> mem]
    /\ mid = [cpu |-> c, mmu |-> mem, bus |-> <<>>]
    /\ prev = [cpu |-> c, mmu |-> mem]
    /\ steps = 0

\* One call of Cpu::cycle by the host.  A panic unwinds out of the call: the
\* host gets no cycle count and the Cpu is not stepped again.
Cycle ==
    /\ steps < MaxSteps
    /\ fault = "none"
    /\ \E m \in {cycle(Machine(cpu, mmu))} :
       \E s \in {IF cpu.halted THEN Machine(cpu, mmu)
                  ELSE service_interrupts(Machine(cpu, mmu))} :
           /\ cpu' = CpuOf(m)
           /\ mmu' = m.mmu
           /\ cycles' = m.ret
           /\ fault' = m.fault
           /\ bus' = m.bus
           /\ pre' = [cpu |-> cpu, mmu |-> mmu]
           /\ mid' = [cpu |-> CpuOf(s), mmu |-> s.mmu, bus |-> s.bus]
           /\ prev' = pre
           /\ steps' = steps + 1

Next == Cycle

(***************************************************************************)
(* Spec: the Cpu after reset, on a bus preloaded with a program at 0x0000. *)
(***************************************************************************)
\* the bytes placed on the bus from address base on
Image(base, bytes) == [a \in {base + i - 1 : i \in 1..Len(bytes)} |-> bytes[a - base + 1]]

\* operand bytes tried after a first opcode
ResetOperands == {\h00, \h01, \h76, \hF1, \hFF}

\* the scenario programs of the specification, and every primary opcode and
\* every CB-prefixed opcode as the first instruction
ResetPrograms ==
    {<<\h3E, \h42, \h06, \h05, \h80>>,
     <<\h3E, \h0F, \h3C>>,
     <<\h3E, \h01, \h1F>>,
     <<\h31, \hFE, \hFF, \h3E, \hAB, \hF5, \hF1>>,
     <<\h18, \hFE>>}
    \cup {<<op, b1, b2>> : op \in 0..255, b1 \in ResetOperands, b2 \in {\h00, \hFF}}
    \cup {<<\hCB, op>> : op \in 0..255}

Init == \E prog \in ResetPrograms : Start(CpuDefault, Image(0, prog))

Spec == Init /\ [][Next]_vars

(***************************************************************************)
(* What a cycle() call is observed to have done.                           *)
(***************************************************************************)
\* the last call fetched an opcode (the Cpu was not halted when it was entered)
Fetched == steps > 0 /\ ~pre.cpu.halted

\* the opcode the last call fetched: the byte at pc when service_interrupts returned
Opcode == mmu_read(mid.mmu, mid.cpu.pc)

\* the request and enable bytes on the bus when the last call was entered
PreIF == mmu_read(pre.mmu, PortIF)
PreIE == mmu_read(pre.mmu, PortIE)

\* IE & IF & 0x1F, the enabled requests, when the last call was entered
Pending == BitAnd(BitAnd(PreIE, PreIF), \h1F)

\* flag bits of an AF value, as 0 or 1
ZOf(af) == (af \div 128) % 2
NOf(af) == (af \div 64) % 2
HOf(af) == (af \div 32) % 2
COf(af) == (af \div 16) % 2

\* the accumulator of an AF value
AOf(af) == af \div 256

\* 0 or 1 for a truth value
B2N(b) == IF b THEN 1 ELSE 0

\* Operand index 0..7 of the instruction encoding names B, C, D, E, H, L, (HL), A;
\* index 8 stands for the immediate byte that follows the opcode.  The value of
\* operand idx in the state s = [cpu, mmu] an instruction starts from, whose
\* opcode is at s.cpu.pc.
OperandOf(s, idx) ==
    CASE idx = 0 -> s.cpu.bc \div 256
      [] idx = 1 -> s.cpu.bc % 256
      [] idx = 2 -> s.cpu.de \div 256
      [] idx = 3 -> s.cpu.de % 256
      [] idx = 4 -> s.cpu.hl \div 256
      [] idx = 5 -> s.cpu.hl % 256
      [] idx = 6 -> mmu_read(s.mmu, s.cpu.hl)
      [] idx = 7 -> s.cpu.af \div 256
      [] idx = 8 -> mmu_read(s.mmu, (s.cpu.pc + 1) % 65536)

(***************************************************************************)
(* SpecAlu: one 8-bit ALU or INC/DEC instruction at 0x0100, started from   *)
(* register contents a program can set up (LD r,u8 for the registers,      *)
(* POP AF for the flags).                                                  *)
(***************************************************************************)
AluBase == \h0100

\* ADD, ADC, SUB, SBC, AND, XOR, OR, CP over the operand grid, and their
\* immediate forms
AluGridOpcodes == \h80..\hBF
AluImmOpcodes == {\hC6, \hCE, \hD6, \hDE, \hE6, \hEE, \hF6, \hFE}

\* INC r / DEC r and INC (HL) / DEC (HL)
IncOpcodes == {\h04, \h0C, \h14, \h1C, \h24, \h2C, \h34, \h3C}
DecOpcodes == {\h05, \h0D, \h15, \h1D, \h25, \h2D, \h35, \h3D}

AluOpcodes == AluGridOpcodes \cup AluImmOpcodes \cup IncOpcodes \cup DecOpcodes

\* the operand index an ALU or INC/DEC opcode encodes
AluOperandIndex(op) ==
    IF op \in AluGridOpcodes THEN op % 8
    ELSE IF op \in AluImmOpcodes THEN 8
    ELSE (op \div 8) % 8

\* the ALU operation 0..7 (ADD, ADC, SUB, SBC, AND, XOR, OR, CP) of an opcode
\* of the grid or of the immediate column
AluOperation(op) == (op \div 8) % 8

\* bytes that cover the carries, borrows and zero results of the 8-bit operations
ByteSamples ==
    {\h00, \h01, \h0F, \h10, \h11, \h55, \h7F, \h80, \h88, \hAA, \hEF, \hF0, \hFE, \hFF}

\* every byte
Bytes == 0..255

\* one register form of ADD, ADC, SUB, SBC and CP, and INC B and DEC B: these
\* are run over every A and every operand byte
AluFullOpcodes == {\h80, \h88, \h90, \h98, \hB8, \h04, \h05}

\* the flag bytes an opcode of AluFullOpcodes is started with: carry clear and
\* set where the operation reads or keeps the carry, carry set where it is
\* to be ignored
AluFullFlags(op) == IF op \in {\h88, \h98, \h04, \h05} THEN {\h00, \h10} ELSE {\h10}

\* the accumulators an opcode of AluFullOpcodes is started with (INC and DEC
\* do not read A)
AluFullAccumulators(op) == IF op \in {\h04, \h05} THEN {\h3C} ELSE Bytes

\* flag bytes: every flag set and clear, each carry with each subtract flag
FlagSamples == {\h00, \h10, \h40, \h50, \hA0, \hB0, \hE0, \hF0}

\* registers other than the operand hold distinct bytes, so that an
\* instruction reading the wrong register computes a different result
AluCpu(a, f) ==
    [CpuDefault EXCEPT !.pc = AluBase, !.sp = \hD000, !.af = a * 256 + f,
                       !.bc = \h2132, !.de = \h4354, !.hl = \hC065]

\* the Cpu c with operand idx holding the byte s
WithOperand(c, idx, s) ==
    CASE idx = 0 -> [c EXCEPT !.bc = s * 256 + (@ % 256)]
      [] idx = 1 -> [c EXCEPT !.bc = (@ \div 256) * 256 + s]
      [] idx = 2 -> [c EXCEPT !.de = s * 256 + (@ % 256)]
      [] idx = 3 -> [c EXCEPT !.de = (@ \div 256) * 256 + s]
      [] idx = 4 -> [c EXCEPT !.hl = s * 256 + (@ % 256)]
      [] idx = 5 -> [c EXCEPT !.hl = (@ \div 256) * 256 + s]
      [] idx = 7 -> [c EXCEPT !.af = s * 256 + (@ % 256)]
      [] OTHER -> c

\* the bus with the opcode at pc and the byte s where operand idx is read from
AluBus(c, op, idx, s) ==
    CASE idx = 6 -> (c.pc :> op) @@ (c.hl :> s)
      [] idx = 8 -> (c.pc :> op) @@ ((c.pc + 1) :> s)
      [] OTHER -> (c.pc :> op)

\* the state before the first call for opcode op, accumulator a, operand
\* byte s and flag byte f
StartAlu(op, a, s, f) ==
    LET idx == AluOperandIndex(op)
        c == WithOperand(AluCpu(a, f), idx, s)
    IN  /\ (idx = 7 => a = s)
        /\ Start(c, AluBus(c, op, idx, s))

\* every ALU and INC/DEC opcode over the sampled bytes and flags, and the
\* opcodes of AluFullOpcodes over every byte
InitAlu ==
    \E op \in AluOpcodes, s \in Bytes :
        \E a \in IF op \in AluFullOpcodes THEN AluFullAccumulators(op) \cup ByteSamples
                  ELSE ByteSamples :
        \E f \in IF op \in AluFullOpcodes THEN AluFullFlags(op) \cup FlagSamples
                  ELSE FlagSamples :
            /\ \/ a \in ByteSamples /\ s \in ByteSamples /\ f \in FlagSamples
               \/ /\ op \in AluFullOpcodes
                  /\ a \in AluFullAccumulators(op)
                  /\ f \in AluFullFlags(op)
            /\ StartAlu(op, a, s, f)

SpecAlu == InitAlu /\ [][Next]_vars

(***************************************************************************)
(* SpecInt: a Cpu about to take a step with interrupt requests on the bus. *)
(* The program reaches these states with EI/DI, HALT, LD SP and stores to  *)
(* 0xFF0F and 0xFFFF.  The same one-byte instruction sits at pc and at     *)
(* every interrupt vector.                                                 *)
(***************************************************************************)
\* request and enable bytes: single sources, several sources, bits 5..7
IntBytes == {\h00, \h01, \h02, \h04, \h05, \h08, \h10, \h18, \h1F, \hE0, \hE4, \hFF}

\* stack pointers: high RAM, wrapping through 0x0000, over the IF byte
IntStacks == {\hFFFE, \h0001, \hFF10, \hFF11, \hD000}

IntPcs == {\h0100, \hC123}

\* NOP, EI, RETI, HALT, PUSH BC
IntInstructions == {\h00, \hFB, \hD9, \h76, \hC5}

Vectors == {\h0040, \h0048, \h0050, \h0058, \h0060}

IntBus(pc0, instr, if_value, ie_value) ==
    [a \in Vectors \cup {pc0, PortIF, PortIE} |->
        IF a = PortIF THEN if_value
        ELSE IF a = PortIE THEN ie_value
        ELSE instr]

InitInt ==
    \E pc0 \in IntPcs, sp0 \in IntStacks, ime \in BOOLEAN, h \in BOOLEAN,
       if_value \in IntBytes, ie_value \in IntBytes, instr \in IntInstructions :
        Start([CpuDefault EXCEPT !.pc = pc0, !.sp = sp0, !.bc = \h1234,
                                 !.interrupts_enabled = ime, !.halted = h],
              IntBus(pc0, instr, if_value, ie_value))

SpecInt == InitInt /\ [][Next]_vars


(***************************************************************************)
(* Properties of interrupt dispatch and of the halted state (SpecInt).     *)
(***************************************************************************)
\* bit b of the value x, as 0 or 1
Bit(x, b) == (x \div (2 ^ b)) % 2

\* the lowest set bit of a non-zero value of IE & IF & 0x1F
LowestBit(x) == CHOOSE b \in 0..4 : Bit(x, b) = 1 /\ \A k \in 0..(b - 1) : Bit(x, k) = 0

\* interrupt vector of source b
VectorOf(b) == \h0040 + 8 * b

\* the last call was entered not idle, with IME set and an enabled request
Dispatches ==
    /\ steps > 0
    /\ ~pre.cpu.halted
    /\ ~pre.cpu.stopped
    /\ pre.cpu.interrupts_enabled
    /\ Pending # 0

IsWrite(e) == e[1] = "write"

\* the bus writes of an access log, in order
Writes(log) == SelectSeq(log, IsWrite)

\* the writes of a dispatch of source b entered with pc0 and sp0: the low byte
\* of pc0 at sp0-2, its high byte at sp0-1, then IF with bit b cleared
DispatchWrites(pc0, sp0, b) ==
    << <<"write", (sp0 - 2) % 65536, pc0 % 256>>,
       <<"write", (sp0 - 1) % 65536, pc0 \div 256>>,
       <<"write", PortIF, PreIF - 2 ^ b>> >>

\* C1: when a call is entered not idle with IME set and IE & IF & 0x1F non-zero,
\* the dispatch services the lowest set bit b: on return from
\* service_interrupts SP is the entry SP minus 2, the entry PC has been
\* written low byte at the new SP and high byte at the new SP + 1, IF has been
\* written back with bit b cleared and every other bit (bits 5..7 included)
\* as it was, IME is clear and PC is 0x0040 + 8*b.
C1_DispatchServicesLowestSource ==
    Dispatches =>
        LET b == LowestBit(Pending)
            pc0 == pre.cpu.pc
            sp1 == (pre.cpu.sp - 2) % 65536
            sp2 == (pre.cpu.sp - 1) % 65536
        IN  /\ mid.cpu.sp = sp1
            /\ Writes(mid.bus) = DispatchWrites(pc0, pre.cpu.sp, b)
            /\ (sp1 # PortIF => mmu_read(mid.mmu, sp1) = pc0 % 256)
            /\ (sp2 # PortIF => mmu_read(mid.mmu, sp2) = pc0 \div 256)
            /\ \A k \in 0..7 :
                  Bit(mmu_read(mid.mmu, PortIF), k) = IF k = b THEN 0 ELSE Bit(PreIF, k)
            /\ ~mid.cpu.interrupts_enabled
            /\ mid.cpu.pc = VectorOf(b)
            /\ mid.cpu.af = pre.cpu.af /\ mid.cpu.bc = pre.cpu.bc
            /\ mid.cpu.de = pre.cpu.de /\ mid.cpu.hl = pre.cpu.hl

\* C1 witness: IE = 0x18 and IF = 0x1F request sources 3 and 4; source 3 is
\* serviced, IF becomes 0x17 and PC 0x0058
C1_Witness ==
    /\ Dispatches
    /\ PreIE = \h18 /\ PreIF = \h1F
    /\ pre.cpu.sp = \hFFFE /\ pre.cpu.pc = \hC123
    /\ mid.cpu.pc = \h0058 /\ mid.cpu.sp = \hFFFC
    /\ mmu_read(mid.mmu, PortIF) = \h17
    /\ mmu_read(mid.mmu, \hFFFC) = \h23 /\ mmu_read(mid.mmu, \hFFFD) = \hC1

\* C2: a step that dispatches an interrupt returns exactly 20 cycles and
\* fetches no opcode: when it returns PC is the vector and nothing has been
\* done after the dispatch (the instruction at the vector has not run).
C2_DispatchStepReturns20WithoutFetch ==
    Dispatches =>
        /\ fault = "none"
        /\ cycles = 20
        /\ cpu.pc = VectorOf(LowestBit(Pending))
        /\ cpu = mid.cpu
        /\ mmu = mid.mmu
        /\ bus = mid.bus

\* C3: a step entered halted with IE & IF & 0x1F non-zero leaves halted false;
\* with IME clear nothing is pushed, IF is unchanged and PC is not set to the
\* vector; with IME set the interrupt is dispatched to the vector.
C3_HaltedWakesOnPendingInterrupt ==
    (steps > 0 /\ pre.cpu.halted /\ Pending # 0) =>
        LET b == LowestBit(Pending)
        IN  /\ ~cpu.halted
            /\ ~pre.cpu.interrupts_enabled =>
                  /\ Writes(bus) = <<>>
                  /\ cpu.sp = pre.cpu.sp
                  /\ mmu_read(mmu, PortIF) = PreIF
                  /\ cpu.pc # VectorOf(b)
            /\ pre.cpu.interrupts_enabled =>
                  /\ Len(Writes(bus)) >= 3
                  /\ SubSeq(Writes(bus), 1, 3) = DispatchWrites(pre.cpu.pc, pre.cpu.sp, b)

(***************************************************************************)
(* Properties of the Cpu started from reset (Spec).                        *)
(***************************************************************************)
\* C4: in every state reachable from reset, bits 3..0 of AF are zero.
C4_FlagLowNibbleAlwaysZero == cpu.af % 16 = 0

\* the primary opcodes the hardware leaves undefined
IllegalOpcodes == {\hD3, \hDB, \hDD, \hE3, \hE4, \hEB, \hEC, \hED, \hF4, \hFC, \hFD}

\* C5: a step that fetches one of the 11 undefined primary opcodes ends in the
\* typed IllegalOpcode failure, not in a cycle count and not in a panic.
C5_UndefinedOpcodeFailsTyped ==
    (Fetched /\ Opcode \in IllegalOpcodes) => fault = "IllegalOpcode"

\* C6: a step that fetches any other primary opcode, or 0xCB and any second
\* byte, completes and returns a cycle count, never an unimplemented outcome;
\* DAA returns 4, JP HL sets PC to HL and returns 4, LD HL,SP+e8 sets HL to
\* (SP + e8) mod 2^16, leaves SP alone and returns 12.
C6_DefinedOpcodeCompletes ==
    (Fetched /\ Opcode \notin IllegalOpcodes) =>
        /\ fault = "none"
        /\ cycles > 0
        /\ Opcode = \h27 => cycles = 4
        /\ Opcode = \hE9 => (cycles = 4 /\ cpu.pc = mid.cpu.hl)
        /\ Opcode = \hF8 =>
              /\ cycles = 12
              /\ cpu.sp = mid.cpu.sp
              /\ cpu.hl = (mid.cpu.sp + AsI8(OperandOf(mid, 8))) % 65536

(***************************************************************************)
(* Properties of the 8-bit arithmetic and logic instructions (SpecAlu).    *)
(***************************************************************************)
\* ADD A,s and ADC A,s: register, (HL) and immediate forms
AddOpcodes == (\h80..\h8F) \cup {\hC6, \hCE}

\* SUB s, SBC A,s and CP s
SubOpcodes == (\h90..\h9F) \cup (\hB8..\hBF) \cup {\hD6, \hDE, \hFE}

\* AND s, XOR s and OR s
LogicOpcodes == (\hA0..\hB7) \cup {\hE6, \hEE, \hF6}

\* C7: ADD/ADC in register, (HL) and immediate form leave
\* A = (A + s + Cin) mod 256, Z = (result = 0), N = 0,
\* H = ((A & 0xF) + (s & 0xF) + Cin > 0xF), C = (A + s + Cin > 0xFF), with
\* Cin = 0 for ADD and the entry C flag for ADC.
C7_AddAdcResultAndFlags ==
    (Fetched /\ Opcode \in AddOpcodes) =>
        LET a == AOf(mid.cpu.af)
            s == OperandOf(mid, AluOperandIndex(Opcode))
            cin == IF AluOperation(Opcode) = 1 THEN COf(mid.cpu.af) ELSE 0
            sum == a + s + cin
        IN  /\ fault = "none"
            /\ AOf(cpu.af) = sum % 256
            /\ ZOf(cpu.af) = B2N(sum % 256 = 0)
            /\ NOf(cpu.af) = 0
            /\ HOf(cpu.af) = B2N((a % 16) + (s % 16) + cin > 15)
            /\ COf(cpu.af) = B2N(sum > 255)

\* C7 witness: ADC A,(HL) with A = 0xFF, (HL) = 0x00 and C set gives A = 0x00
\* with Z, H and C set
C7_Witness ==
    /\ Fetched
    /\ Opcode = \h8E
    /\ AOf(mid.cpu.af) = \hFF
    /\ OperandOf(mid, 6) = \h00
    /\ COf(mid.cpu.af) = 1
    /\ cpu.af = \h00B0

\* C8: SUB/SBC leave A = (A - s - Cin) mod 256 and CP leaves A unchanged; all
\* three set Z = ((A - s - Cin) mod 256 = 0), N = 1,
\* H = ((A & 0xF) < (s & 0xF) + Cin), C = (A < s + Cin), with Cin = 0 for SUB
\* and CP and the entry C flag for SBC.
C8_SubSbcCpResultAndFlags ==
    (Fetched /\ Opcode \in SubOpcodes) =>
        LET a == AOf(mid.cpu.af)
            s == OperandOf(mid, AluOperandIndex(Opcode))
            operation == AluOperation(Opcode)
            cin == IF operation = 3 THEN COf(mid.cpu.af) ELSE 0
            result == (a - s - cin) % 256
        IN  /\ fault = "none"
            /\ AOf(cpu.af) = IF operation = 7 THEN a ELSE result
            /\ ZOf(cpu.af) = B2N(result = 0)
            /\ NOf(cpu.af) = 1
            /\ HOf(cpu.af) = B2N((a % 16) < (s % 16) + cin)
            /\ COf(cpu.af) = B2N(a < s + cin)

\* C8 witness: SBC A,B with A = 0x10, B = 0x0F and C set gives A = 0x00 with
\* Z, N and H set and C clear
C8_Witness ==
    /\ Fetched
    /\ Opcode = \h98
    /\ AOf(mid.cpu.af) = \h10
    /\ OperandOf(mid, 0) = \h0F
    /\ COf(mid.cpu.af) = 1
    /\ cpu.af = \h00E0

\* C9: for every prior flag state AND/OR/XOR leave A = A & s, A | s, A ^ s and
\* set Z = (result = 0), N = 0, C = 0, H = 1 for AND and H = 0 for OR and XOR.
C9_LogicResultAndFlags ==
    (Fetched /\ Opcode \in LogicOpcodes) =>
        LET a == AOf(mid.cpu.af)
            s == OperandOf(mid, AluOperandIndex(Opcode))
            operation == AluOperation(Opcode)
            result == IF operation = 4 THEN BitAnd(a, s)
                      ELSE IF operation = 5 THEN BitXor(a, s)
                      ELSE BitOr(a, s)
        IN  /\ fault = "none"
            /\ AOf(cpu.af) = result
            /\ ZOf(cpu.af) = B2N(result = 0)
            /\ NOf(cpu.af) = 0
            /\ HOf(cpu.af) = B2N(operation = 4)
            /\ COf(cpu.af) = 0

\* C10: INC stores (r + 1) mod 256 with Z = (result = 0), N = 0,
\* H = ((r & 0xF) = 0xF); DEC stores (r - 1) mod 256 with Z = (result = 0),
\* N = 1, H = ((r & 0xF) = 0); both in register and (HL) form, and both leave
\* the C flag as it was.
C10_IncDecResultAndFlags ==
    (Fetched /\ Opcode \in IncOpcodes \cup DecOpcodes) =>
        LET idx == AluOperandIndex(Opcode)
            r == OperandOf(mid, idx)
            increment == Opcode \in IncOpcodes
            result == IF increment THEN (r + 1) % 256 ELSE (r - 1) % 256
        IN  /\ fault = "none"
            /\ OperandOf([cpu |-> cpu, mmu |-> mmu], idx) = result
            /\ ZOf(cpu.af) = B2N(result = 0)
            /\ NOf(cpu.af) = B2N(~increment)
            /\ HOf(cpu.af) = B2N((r % 16) = (IF increment THEN 15 ELSE 0))
            /\ COf(cpu.af) = COf(mid.cpu.af)

\* C10 witness: INC (HL) on 0xFF with C set stores 0x00 and gives Z = 1,
\* N = 0, H = 1 with C still set
C10_Witness ==
    /\ Fetched
    /\ Opcode = \h34
    /\ OperandOf(mid, 6) = \hFF
    /\ COf(mid.cpu.af) = 1
    /\ mmu_read(mmu, cpu.hl) = \h00
    /\ cpu.af % 256 = \hB0

(***************************************************************************)
(* SpecBits: one CB-prefixed instruction, or one of RLCA, RRCA, RLA, RRA   *)
(* and CPL, at 0x0100, over every operand byte.                            *)
(***************************************************************************)
\* RLCA, RRCA, RLA, RRA
RotateAOpcodes == {\h07, \h0F, \h17, \h1F}

\* flag bytes a CB instruction is started with: all clear, carry only, all
\* but carry, all set
BitsFlags == {\h00, \h10, \hE0, \hF0}

\* the state before the first call for CB opcode cbop on the operand byte v
StartCb(cbop, v, f) ==
    LET idx == cbop % 8
        c == WithOperand(AluCpu(\h3C, f), idx, v)
        code == (c.pc :> \hCB) @@ ((c.pc + 1) :> cbop)
    IN  Start(c, IF idx = 6 THEN code @@ (c.hl :> v) ELSE code)

InitBits ==
    \/ \E cbop \in 0..255, v \in Bytes, f \in BitsFlags : StartCb(cbop, v, f)
    \/ \E op \in RotateAOpcodes \cup {\h2F}, a \in Bytes, f \in FlagSamples :
          Start(AluCpu(a, f), (AluBase :> op))

SpecBits == InitBits /\ [][Next]_vars

\* the last call fetched the prefix 0xCB
FetchedCb == Fetched /\ Opcode = \hCB

\* the byte after the prefix
CbOpcode == mmu_read(mid.mmu, (mid.cpu.pc + 1) % 65536)

\* the operand of the CB instruction before and after the call
CbOperandBefore == OperandOf(mid, CbOpcode % 8)
CbOperandAfter == OperandOf([cpu |-> cpu, mmu |-> mmu], CbOpcode % 8)

\* F has the flags z, n, h, c (each 0 or 1)
FlagsAre(af, z, n, h, c) ==
    ZOf(af) = z /\ NOf(af) = n /\ HOf(af) = h /\ COf(af) = c

\* rotate and shift results on a byte v, with carry-in old_c
RlcOf(v) == ((2 * v) % 256) + (v \div 128)
RlOf(v, old_c) == ((2 * v) % 256) + old_c
RrcOf(v) == (v \div 2) + 128 * (v % 2)
RrOf(v, old_c) == (v \div 2) + 128 * old_c

\* C11: the CB rotates (CB 00..1F, register and (HL) forms) store
\* RLC = rotate-left(v) with C = bit 7 of v, RRC = rotate-right(v) with
\* C = bit 0 of v, RL = ((v << 1) & 0xFF) | old C with C = bit 7 of v,
\* RR = (v >> 1) | (old C ? 0x80 : 0) with C = bit 0 of v; each sets N = 0,
\* H = 0 and Z = (result = 0).
C11_CbRotateResultAndFlags ==
    (FetchedCb /\ CbOpcode \in \h00..\h1F) =>
        LET v == CbOperandBefore
            old_c == COf(mid.cpu.af)
            kind == CbOpcode \div 8
            result == CASE kind = 0 -> RlcOf(v)
                        [] kind = 1 -> RrcOf(v)
                        [] kind = 2 -> RlOf(v, old_c)
                        [] kind = 3 -> RrOf(v, old_c)
            carry == IF kind \in {0, 2} THEN v \div 128 ELSE v % 2
        IN  /\ fault = "none"
            /\ CbOperandAfter = result
            /\ FlagsAre(cpu.af, B2N(result = 0), 0, 0, carry)

\* C11 witness: RL (HL) on 0x80 with C clear stores 0x00 and sets Z and C;
\* the flags N and H that were set are cleared
C11_Witness ==
    /\ FetchedCb
    /\ CbOpcode = \h16
    /\ CbOperandBefore = \h80
    /\ mid.cpu.af % 256 = \hE0
    /\ mmu_read(mmu, cpu.hl) = \h00
    /\ cpu.af % 256 = \h90

\* C12: RLCA, RRCA, RLA and RRA (07, 0F, 17, 1F) rotate A as RLC, RRC, RL and
\* RR do, with the same C, N = 0 and H = 0, leave Z = 0 even when the
\* resulting A is zero, and return 4.
C12_RotateAccumulatorClearsZero ==
    (Fetched /\ Opcode \in RotateAOpcodes) =>
        LET v == AOf(mid.cpu.af)
            old_c == COf(mid.cpu.af)
            kind == Opcode \div 8
            result == CASE kind = 0 -> RlcOf(v)
                        [] kind = 1 -> RrcOf(v)
                        [] kind = 2 -> RlOf(v, old_c)
                        [] kind = 3 -> RrOf(v, old_c)
            carry == IF kind \in {0, 2} THEN v \div 128 ELSE v % 2
        IN  /\ fault = "none"
            /\ cycles = 4
            /\ AOf(cpu.af) = result
            /\ FlagsAre(cpu.af, 0, 0, 0, carry)

\* C12 witness: RLA on A = 0x80 with C clear leaves A = 0x00 with C set and
\* Z clear
C12_Witness ==
    /\ Fetched
    /\ Opcode = \h17
    /\ mid.cpu.af = \h80E0
    /\ cpu.af = \h0010
    /\ cycles = 4

\* C13: the CB shifts (CB 20..2F and CB 38..3F, register and (HL) forms) store
\* SLA = (v << 1) & 0xFF with C = bit 7 of v, SRA = (v >> 1) | (v & 0x80) with
\* C = bit 0 of v, SRL = v >> 1 with C = bit 0 of v; each sets N = 0, H = 0
\* and Z = (result = 0).
C13_CbShiftResultAndFlags ==
    (FetchedCb /\ CbOpcode \in (\h20..\h2F) \cup (\h38..\h3F)) =>
        LET v == CbOperandBefore
            kind == CbOpcode \div 8
            result == CASE kind = 4 -> (2 * v) % 256
                        [] kind = 5 -> (v \div 2) + 128 * (v \div 128)
                        [] kind = 7 -> v \div 2
            carry == IF kind = 4 THEN v \div 128 ELSE v % 2
        IN  /\ fault = "none"
            /\ CbOperandAfter = result
            /\ FlagsAre(cpu.af, B2N(result = 0), 0, 0, carry)

\* C14: for every bit index b and operand byte s, BIT b,s (CB 40..7F) sets
\* Z = ((s & (1 << b)) = 0), N = 0, H = 1 and leaves C and the operand as they
\* were; RES b,s (CB 80..BF) stores s & ~(1 << b) and SET b,s (CB C0..FF)
\* stores s | (1 << b), and neither changes any flag.
C14_BitResSetResultAndFlags ==
    (FetchedCb /\ CbOpcode >= \h40) =>
        LET s == CbOperandBefore
            b == (CbOpcode \div 8) % 8
            group == CbOpcode \div 64
        IN  /\ fault = "none"
            /\ group = 1 =>
                  /\ CbOperandAfter = s
                  /\ FlagsAre(cpu.af, 1 - Bit(s, b), 0, 1, COf(mid.cpu.af))
            /\ group = 2 =>
                  /\ CbOperandAfter = s - Bit(s, b) * (2 ^ b)
                  /\ cpu.af % 256 = mid.cpu.af % 256
            /\ group = 3 =>
                  /\ CbOperandAfter = s + (1 - Bit(s, b)) * (2 ^ b)
                  /\ cpu.af % 256 = mid.cpu.af % 256

\* C14 witness: BIT 7,(HL) on 0x7F with every flag but C set gives Z = 1,
\* N = 0, H = 1, C = 0 and leaves the byte alone
C14_Witness ==
    /\ FetchedCb
    /\ CbOpcode = \h7E
    /\ CbOperandBefore = \h7F
    /\ mid.cpu.af % 256 = \hE0
    /\ mmu_read(mmu, cpu.hl) = \h7F
    /\ cpu.af % 256 = \hA0

\* C17: CPL (0x2F) leaves A = A ^ 0xFF, sets N = 1 and H = 1 whatever they
\* were, leaves Z and C as they were, and returns 4.
C17_CplResultAndFlags ==
    (Fetched /\ Opcode = \h2F) =>
        /\ fault = "none"
        /\ cycles = 4
        /\ AOf(cpu.af) = 255 - AOf(mid.cpu.af)
        /\ FlagsAre(cpu.af, ZOf(mid.cpu.af), 1, 1, COf(mid.cpu.af))

(***************************************************************************)
(* SpecWide: one 16-bit add, one relative jump, or a PUSH followed by the  *)
(* POP of the same pair, started from register contents a program can set  *)
(* up with LD rr,u16, LD SP,HL and POP AF.                                 *)
(***************************************************************************)
\* 16-bit values around the carries out of bit 3, 7, 11 and 15
WideSamples ==
    {\h0000, \h0001, \h000F, \h0010, \h00FF, \h0100, \h0800, \h0FFF, \h1000, \h1234,
     \h7FFF, \h8000, \h8001, \h8FFF, \hC065, \hEDCC, \hF000, \hF001, \hF800, \hFF00,
     \hFF01, \hFFF0, \hFFFE, \hFFFF}

\* ADD HL,BC / ADD HL,DE / ADD HL,HL / ADD HL,SP
AddWideOpcodes == {\h09, \h19, \h29, \h39}

\* JR e8, JR NZ / Z / NC / C,e8
JrOpcodes == {\h18, \h20, \h28, \h30, \h38}

\* PUSH and POP of BC, DE, HL, AF
PushOpcodes == {\hC5, \hD5, \hE5, \hF5}
PopOpcodes == {\hC1, \hD1, \hE1, \hF1}

\* addresses of a JR opcode: its operand at 0x0000, at 0x0001, mid-memory, at
\* the sign boundary and at the top of memory
JrPcs == {\hFFFF, \h0000, \h0100, \h7FFF, \h8000, \hFFFE}

\* stack pointers of a PUSH: wrapping through 0x0000, high RAM, work RAM, and
\* on the two program bytes
StackSamples == {\h0000, \h0001, \h0002, \hFFFE, \hFFFF, \hD000, \hFF11, \h0102}

\* the register pair opcode op names in bits 5..4: BC, DE, HL, then SP for the
\* 16-bit adds and AF for PUSH and POP
PairOf(c, op) ==
    CASE (op \div 16) % 4 = 0 -> c.bc
      [] (op \div 16) % 4 = 1 -> c.de
      [] (op \div 16) % 4 = 2 -> c.hl
      [] (op \div 16) % 4 = 3 -> IF op \in AddWideOpcodes THEN c.sp ELSE c.af

\* the Cpu c with the pair of opcode op holding x
WithPair(c, op, x) ==
    CASE (op \div 16) % 4 = 0 -> [c EXCEPT !.bc = x]
      [] (op \div 16) % 4 = 1 -> [c EXCEPT !.de = x]
      [] (op \div 16) % 4 = 2 -> [c EXCEPT !.hl = x]
      [] (op \div 16) % 4 = 3 ->
            IF op \in AddWideOpcodes THEN [c EXCEPT !.sp = x]
            ELSE [c EXCEPT !.af = x - (x % 16)]

InitWide ==
    \/ \E op \in AddWideOpcodes, hl \in WideSamples, x \in WideSamples, f \in FlagSamples :
          /\ (op = \h29 => x = hl)
          /\ Start(WithPair([AluCpu(\h3C, f) EXCEPT !.hl = hl], op, x), (AluBase :> op))
    \/ \E sp \in WideSamples, e8 \in Bytes, f \in {\h00, \hF0} :
          Start([AluCpu(\h3C, f) EXCEPT !.sp = sp],
                (AluBase :> \hE8) @@ ((AluBase + 1) :> e8))
    \/ \E op \in JrOpcodes, pc0 \in JrPcs, e8 \in Bytes, f \in {\h00, \h10, \h80, \h90} :
          Start([AluCpu(\h3C, f) EXCEPT !.pc = pc0],
                (pc0 :> op) @@ (((pc0 + 1) % 65536) :> e8))
    \/ \E op \in PushOpcodes, x \in WideSamples, sp \in StackSamples :
          Start(WithPair([AluCpu(\h3C, \h00) EXCEPT !.sp = sp], op, x),
                (AluBase :> op) @@ ((AluBase + 1) :> (op - 4)))

SpecWide == InitWide /\ [][Next]_vars

\* C15: ADD HL,rr (09, 19, 29, 39) leaves HL = (HL + rr) mod 2^16, sets N = 0,
\* H = ((HL & 0x0FFF) + (rr & 0x0FFF) > 0x0FFF), C = (HL + rr > 0xFFFF),
\* leaves Z and rr as they were (rr unless it is HL), and returns 8.
C15_AddWideResultAndFlags ==
    (Fetched /\ Opcode \in AddWideOpcodes) =>
        LET hl == mid.cpu.hl
            x == PairOf(mid.cpu, Opcode)
        IN  /\ fault = "none"
            /\ cycles = 8
            /\ cpu.hl = (hl + x) % 65536
            /\ FlagsAre(cpu.af, ZOf(mid.cpu.af), 0,
                        B2N((hl % 4096) + (x % 4096) > 4095), B2N(hl + x > 65535))
            /\ (Opcode # \h29 => PairOf(cpu, Opcode) = x)
            /\ AOf(cpu.af) = AOf(mid.cpu.af)

\* C15 witness: ADD HL,DE with HL = 0x0FFF and DE = 0xF001 gives HL = 0x0000
\* with H and C set, N cleared and Z kept
C15_Witness ==
    /\ Fetched
    /\ Opcode = \h19
    /\ mid.cpu.hl = \h0FFF /\ mid.cpu.de = \hF001
    /\ mid.cpu.af % 256 = \hE0
    /\ cpu.hl = \h0000 /\ cpu.de = \hF001
    /\ cpu.af % 256 = \hB0
    /\ cycles = 8

\* C16: ADD SP,e8 (0xE8) leaves SP = (SP + e8) mod 2^16 for the signed
\* immediate e8 and sets Z = 0, N = 0, H = ((SP & 0xF) + (e8 & 0xF) > 0xF),
\* C = ((SP & 0xFF) + (e8 & 0xFF) > 0xFF), both computed on the unsigned
\* immediate byte.
C16_AddSpResultAndFlags ==
    (Fetched /\ Opcode = \hE8) =>
        LET sp == mid.cpu.sp
            e8 == OperandOf(mid, 8)
        IN  /\ fault = "none"
            /\ cpu.sp = (sp + AsI8(e8)) % 65536
            /\ FlagsAre(cpu.af, 0, 0,
                        B2N((sp % 16) + (e8 % 16) > 15), B2N((sp % 256) + e8 > 255))

\* the condition of a JR opcode holds on the flags the call was entered with
\* (0x18 is unconditional; 20, 28, 30, 38 test NZ, Z, NC, C)
JrTaken ==
    CASE Opcode = \h18 -> TRUE
      [] Opcode = \h20 -> ZOf(mid.cpu.af) = 0
      [] Opcode = \h28 -> ZOf(mid.cpu.af) = 1
      [] Opcode = \h30 -> COf(mid.cpu.af) = 0
      [] Opcode = \h38 -> COf(mid.cpu.af) = 1
      [] OTHER -> FALSE

\* C18: JR e8 and every taken JR cc,e8 set PC to (address of the byte after
\* the operand + sign-extended e8) mod 2^16 and return 12: operand 0xFE leads
\* back to the JR's own opcode, 0x00 to the next instruction.
C18_JrRelativeToNextInstruction ==
    (Fetched /\ Opcode \in JrOpcodes /\ JrTaken) =>
        /\ fault = "none"
        /\ cycles = 12
        /\ cpu.pc = (mid.cpu.pc + 2 + AsI8(OperandOf(mid, 8))) % 65536

\* C19: the jr handler, entered with PC = p at its operand byte, sets PC to
\* (p + sign-extended operand) mod 2^16 and returns 12; jr_condition does the
\* same and returns 12 when its condition holds, and otherwise leaves
\* PC = p + 1 and returns 8.
C19_JrHandlerRelativeToOperand ==
    (Fetched /\ Opcode \in JrOpcodes) =>
        LET p == (mid.cpu.pc + 1) % 65536
            e8 == OperandOf(mid, 8)
        IN  /\ fault = "none"
            /\ JrTaken => (cpu.pc = (p + AsI8(e8)) % 65536 /\ cycles = 12)
            /\ ~JrTaken => (cpu.pc = (p + 1) % 65536 /\ cycles = 8)
            /\ cpu.af = mid.cpu.af /\ cpu.sp = mid.cpu.sp

\* C19 witness: JR Z with Z set, entered with p = 0x0000 and operand 0xFF,
\* leaves PC = 0xFFFF after 12 cycles
C19_Witness ==
    /\ Fetched
    /\ Opcode = \h28
    /\ mid.cpu.pc = \hFFFF
    /\ OperandOf(mid, 8) = \hFF
    /\ ZOf(mid.cpu.af) = 1
    /\ cpu.pc = \hFFFF
    /\ cycles = 12

\* the opcode fetched by the call before the last (no interrupt is dispatched
\* while IME is clear)
PrevOpcode == mmu_read(prev.mmu, prev.cpu.pc)

\* C20: PUSH rr (rr one of BC, DE, HL, AF) leaves SP decreased by 2 with the
\* high byte of rr at the original SP - 1 and the low byte at the original
\* SP - 2 (addresses mod 2^16) and returns 16; a POP of the same pair that
\* follows restores rr and SP to what they were before the PUSH and
\* returns 12.
C20_PushPopRoundTrip ==
    /\ (Fetched /\ Opcode \in PushOpcodes) =>
          LET x == PairOf(mid.cpu, Opcode)
              sp == mid.cpu.sp
          IN  /\ fault = "none"
              /\ cycles = 16
              /\ cpu.sp = (sp - 2) % 65536
              /\ mmu_read(mmu, (sp - 1) % 65536) = x \div 256
              /\ mmu_read(mmu, (sp - 2) % 65536) = x % 256
              /\ PairOf(cpu, Opcode) = x
    /\ (/\ steps >= 2
        /\ ~prev.cpu.halted /\ ~prev.cpu.interrupts_enabled
        /\ PrevOpcode \in PushOpcodes
        /\ PairOf(prev.cpu, PrevOpcode) % 16 = 0 \/ PrevOpcode # \hF5
        /\ Fetched /\ Opcode = PrevOpcode - 4) =>
          /\ fault = "none"
          /\ cycles = 12
          /\ PairOf(cpu, Opcode) = PairOf(prev.cpu, PrevOpcode)
          /\ cpu.sp = prev.cpu.sp

\* C20 witness: PUSH AF with AF = 0xEDC0 and SP = 0x0001 writes 0xC0 at 0xFFFF
\* and 0xED at 0x0000; the POP AF that follows restores AF and SP
C20_Witness ==
    /\ steps = 2
    /\ PrevOpcode = \hF5 /\ Opcode = \hF1 /\ Fetched
    /\ prev.cpu.af = \hEDC0 /\ prev.cpu.sp = \h0001
    /\ pre.cpu.sp = \hFFFF
    /\ mmu_read(mmu, \hFFFF) = \hC0 /\ mmu_read(mmu, \h0000) = \hED
    /\ cpu.af = \hEDC0 /\ cpu.sp = \h0001
    /\ cycles = 12

(***************************************************************************)
(* SpecFlow: one jump, call, return, restart, LD (u16),SP, DI or EI with   *)
(* its operand bytes behind it and a return address on the stack; and any  *)
(* primary opcode entered with IME set or clear and interrupt requests on  *)
(* the bus.                                                                *)
(***************************************************************************)
\* JP u16, JP NZ / Z / NC / C,u16
JpOpcodes == {\hC3, \hC2, \hCA, \hD2, \hDA}

\* CALL u16, CALL NZ / Z / NC / C,u16
CallOpcodes == {\hCD, \hC4, \hCC, \hD4, \hDC}

\* RET, RET NZ / Z / NC / C
RetOpcodes == {\hC9, \hC0, \hC8, \hD0, \hD8}

\* RST 00, 08, 10, 18, 20, 28, 30, 38
RstOpcodes == {\hC7, \hCF, \hD7, \hDF, \hE7, \hEF, \hF7, \hFF}

\* RETI, LD (u16),SP, DI, EI
FlowOpcodes ==
    JrOpcodes \cup JpOpcodes \cup CallOpcodes \cup RetOpcodes \cup RstOpcodes
    \cup {\hD9, \h08, \hF3, \hFB}

\* addresses of the opcode: mid-memory, and with its operands wrapping
\* through 0x0000
FlowPcs == {\h0100, \hC123, \hFFFE}

\* stack pointers: wrapping through 0x0000 either way, work RAM, and on the
\* bytes of the instruction at 0x0100
FlowStacks == {\h0000, \h0001, \hFFFE, \hFFFF, \hD000, \h0102}

\* low and high operand bytes
FlowLows == {\h00, \h34, \hFF}
FlowHighs == {\h00, \h12, \hFF}

\* 16-bit values on the stack
FlowReturns == {\h0000, \hC3A5, \hFFFF}

\* Z and C set and clear
FlowFlags == {\h00, \h10, \h80, \h90}

\* request and enable bytes: nothing pending, one enabled request among
\* several, requests in bits 5..7 only
FlowRequests == {<<\h00, \h00>>, <<\h1F, \h04>>, <<\hE0, \hFF>>}

\* the instruction bytes at pc0, laid over the stack word x at sp0
FlowBus(pc0, op, lo, hi, sp0, x) ==
    (pc0 :> op) @@ (((pc0 + 1) % 65536) :> lo) @@ (((pc0 + 2) % 65536) :> hi)
    @@ (sp0 :> (x % 256)) @@ (((sp0 + 1) % 65536) :> (x \div 256))

InitFlow ==
    \/ \E op \in FlowOpcodes, pc0 \in FlowPcs, sp0 \in FlowStacks, f \in FlowFlags,
          lo \in FlowLows, hi \in FlowHighs, x \in FlowReturns, ime \in BOOLEAN :
          Start([AluCpu(\h3C, f) EXCEPT !.pc = pc0, !.sp = sp0,
                                        !.interrupts_enabled = ime],
                FlowBus(pc0, op, lo, hi, sp0, x))
    \/ \E op \in 0..255, ime \in BOOLEAN, h \in BOOLEAN, q \in FlowRequests,
          sp0 \in {\hD000, \h0001} :
          Start([AluCpu(\h3C, \h00) EXCEPT !.sp = sp0, !.interrupts_enabled = ime,
                                           !.halted = h],
                IntBus(AluBase, op, q[1], q[2]))

SpecFlow == InitFlow /\ [][Next]_vars

(***************************************************************************)
(* Properties of jumps, calls, returns and the interrupt master enable     *)
(* (SpecFlow).                                                             *)
(***************************************************************************)
\* JR, JP, CALL, RET without a condition
UnconditionalOpcodes == {\h18, \hC3, \hCD, \hC9}

\* the condition bits 4..3 of a conditional opcode select NZ, Z, NC, C; whether
\* it holds on the flags the instruction executes with
ConditionHolds ==
    CASE (Opcode \div 8) % 4 = 0 -> ZOf(mid.cpu.af) = 0
      [] (Opcode \div 8) % 4 = 1 -> ZOf(mid.cpu.af) = 1
      [] (Opcode \div 8) % 4 = 2 -> COf(mid.cpu.af) = 0
      [] (Opcode \div 8) % 4 = 3 -> COf(mid.cpu.af) = 1

\* the last call executed a jump, call or return that was taken
Taken == Opcode \in UnconditionalOpcodes \/ ConditionHolds

\* the bus accesses of the last call after service_interrupts returned: the
\* opcode fetch and the accesses of the instruction
InstructionLog == SubSeq(bus, Len(mid.bus) + 1, Len(bus))

IsRead(e) == e[1] = "read"

\* the bus reads of an access log, in order
Reads(log) == SelectSeq(log, IsRead)

\* the last call executed an instruction that pushes: PUSH rr, a taken CALL, RST
Pushes ==
    /\ Fetched
    /\ \/ Opcode \in PushOpcodes \cup RstOpcodes
       \/ Opcode \in CallOpcodes /\ Taken

\* the 16-bit value that instruction pushes
Pushed ==
    IF Opcode \in PushOpcodes THEN PairOf(mid.cpu, Opcode)
    ELSE IF Opcode \in RstOpcodes THEN (mid.cpu.pc + 1) % 65536
    ELSE (mid.cpu.pc + 3) % 65536

\* the last call executed an instruction that pops: POP rr, a taken RET, RETI
Pops ==
    /\ Fetched
    /\ \/ Opcode \in PopOpcodes \cup {\hD9}
       \/ Opcode \in RetOpcodes /\ Taken

\* C21: within any push (PUSH rr, the push of a taken CALL, of RST and of an
\* interrupt dispatch) the first bus write stores the high byte at SP - 1 and
\* the second stores the low byte at SP - 2; within a pop the low byte at SP is
\* read before the high byte at SP + 1.
C21_PushWritesHighByteFirst ==
    /\ Pushes =>
          LET w == Writes(InstructionLog)
              sp == mid.cpu.sp
          IN  /\ Len(w) = 2
              /\ w[1] = <<"write", (sp - 1) % 65536, Pushed \div 256>>
              /\ w[2] = <<"write", (sp - 2) % 65536, Pushed % 256>>
    /\ Dispatches =>
          LET w == Writes(mid.bus)
              sp == pre.cpu.sp
          IN  /\ Len(w) >= 2
              /\ w[1] = <<"write", (sp - 1) % 65536, pre.cpu.pc \div 256>>
              /\ w[2] = <<"write", (sp - 2) % 65536, pre.cpu.pc % 256>>
    /\ Pops =>
          LET r == Reads(InstructionLog)
              sp == mid.cpu.sp
          IN  /\ Len(r) = 3
              /\ r[2][2] = sp
              /\ r[3][2] = (sp + 1) % 65536

\* the 16-bit operand behind the opcode the last call fetched, low byte first
WideOperand ==
    mmu_read(mid.mmu, (mid.cpu.pc + 1) % 65536)
    + 256 * mmu_read(mid.mmu, (mid.cpu.pc + 2) % 65536)

\* C22: LD (u16),SP (opcode 08) reads its address operand low byte first,
\* stores the low byte of SP at addr and the high byte of SP at
\* (addr + 1) mod 2^16, leaves SP and the flags unchanged, and returns 20.
C22_WriteStackImmediate ==
    (Fetched /\ Opcode = \h08) =>
        /\ fault = "none"
        /\ cpu.pc = (mid.cpu.pc + 3) % 65536
        /\ mmu_read(mmu, WideOperand) = mid.cpu.sp % 256
        /\ mmu_read(mmu, (WideOperand + 1) % 65536) = mid.cpu.sp \div 256
        /\ cpu.sp = mid.cpu.sp
        /\ cpu.af = mid.cpu.af
        /\ cycles = 20

\* the cost of a jump, call or return opcode: unconditional or taken, and not taken
TakenCost(op) ==
    CASE op \in JrOpcodes -> 12
      [] op \in JpOpcodes -> 16
      [] op \in CallOpcodes -> 24
      [] op \in RetOpcodes -> IF op = \hC9 THEN 16 ELSE 20

UntakenCost(op) ==
    CASE op \in JrOpcodes -> 8
      [] op \in JpOpcodes -> 12
      [] op \in CallOpcodes -> 12
      [] op \in RetOpcodes -> 8

\* C23: with the condition (NZ: Z = 0, Z: Z = 1, NC: C = 0, C: C = 1) evaluated
\* on the flags the instruction executes with, JR cc returns 12 taken and 8
\* not, JP cc 16 and 12, CALL cc 24 and 12, RET cc 20 and 8; JR, JP, CALL and
\* RET return 12, 16, 24 and 16.
C23_BranchCosts ==
    (Fetched /\ Opcode \in JrOpcodes \cup JpOpcodes \cup CallOpcodes \cup RetOpcodes) =>
        /\ fault = "none"
        /\ cycles = IF Taken THEN TakenCost(Opcode) ELSE UntakenCost(Opcode)

\* C23 witness: RET C (D8) with C = 1 and Z = 1 is taken and returns 20
C23_Witness ==
    /\ Fetched /\ Opcode = \hD8
    /\ mid.cpu.af % 256 = \h90
    /\ mid.cpu.sp = \hFFFF
    /\ Taken
    /\ cpu.sp = \h0001
    /\ cycles = 20

\* C24: CALL u16, every taken CALL cc and every RST n leave the address of the
\* instruction that follows them on the stack (for CALL the address after both
\* operand bytes; high byte at SP - 1, low byte at SP - 2, SP decreased by 2)
\* and set PC to the target: the u16 operand for CALL, and 0x00, 0x08, 0x10,
\* 0x18, 0x20, 0x28, 0x30, 0x38 for opcodes C7, CF, D7, DF, E7, EF, F7, FF;
\* RST returns 16.
C24_CallRstPushNextInstruction ==
    /\ (Fetched /\ Opcode \in CallOpcodes /\ Taken) =>
          LET sp == mid.cpu.sp
              next == (mid.cpu.pc + 3) % 65536
          IN  /\ fault = "none"
              /\ cpu.sp = (sp - 2) % 65536
              /\ mmu_read(mmu, (sp - 1) % 65536) = next \div 256
              /\ mmu_read(mmu, (sp - 2) % 65536) = next % 256
              /\ cpu.pc = WideOperand
    /\ (Fetched /\ Opcode \in RstOpcodes) =>
          LET sp == mid.cpu.sp
              next == (mid.cpu.pc + 1) % 65536
          IN  /\ fault = "none"
              /\ cpu.sp = (sp - 2) % 65536
              /\ mmu_read(mmu, (sp - 1) % 65536) = next \div 256
              /\ mmu_read(mmu, (sp - 2) % 65536) = next % 256
              /\ cpu.pc = Opcode - \hC7
              /\ cycles = 16

\* C24 witness: CALL Z,0x1234 at 0xFFFE with Z = 1 and SP = 0x0001 reads its
\* operand at 0xFFFF and 0x0000, pushes 0x0001 (0x00 at 0x0000, 0x01 at 0xFFFF)
\* and continues at 0x1234
C24_Witness ==
    /\ Fetched /\ Opcode = \hCC
    /\ mid.cpu.pc = \hFFFE /\ mid.cpu.sp = \h0001
    /\ ZOf(mid.cpu.af) = 1
    /\ WideOperand = \h1234
    /\ cpu.pc = \h1234 /\ cpu.sp = \hFFFF
    /\ mmu_read(mmu, \h0000) = \h00 /\ mmu_read(mmu, \hFFFF) = \h01
    /\ cycles = 24

\* the 16-bit value on top of the stack when the instruction starts: low byte
\* at SP, high byte at SP + 1
StackTop ==
    mmu_read(mid.mmu, mid.cpu.sp) + 256 * mmu_read(mid.mmu, (mid.cpu.sp + 1) % 65536)

\* C25: RET and every taken RET cc set PC to the 16-bit value popped from the
\* stack (low byte from SP, high byte from SP + 1) and increase SP by 2; RETI
\* does the same, sets IME, and returns 16.
C25_RetPopsPc ==
    /\ (Fetched /\ Opcode \in RetOpcodes /\ Taken) =>
          /\ fault = "none"
          /\ cpu.pc = StackTop
          /\ cpu.sp = (mid.cpu.sp + 2) % 65536
    /\ (Fetched /\ Opcode = \hD9) =>
          /\ fault = "none"
          /\ cpu.pc = StackTop
          /\ cpu.sp = (mid.cpu.sp + 2) % 65536
          /\ cpu.interrupts_enabled
          /\ cycles = 16

\* C25 witness: RETI with IME clear and 0xC3A5 on the stack at 0xFFFF (low
\* byte 0xA5 at 0xFFFF, high byte 0xC3 at 0x0000) continues at 0xC3A5 with
\* SP = 0x0001 and IME set
C25_Witness ==
    /\ Fetched /\ Opcode = \hD9
    /\ ~mid.cpu.interrupts_enabled
    /\ mid.cpu.sp = \hFFFF
    /\ mmu_read(mid.mmu, \hFFFF) = \hA5 /\ mmu_read(mid.mmu, \h0000) = \hC3
    /\ cpu.pc = \hC3A5 /\ cpu.sp = \h0001
    /\ cpu.interrupts_enabled
    /\ cycles = 16

\* the last call dispatched an interrupt: it was entered not halted, with IME
\* set and an enabled request in bits 0..4
Dispatched == Fetched /\ pre.cpu.interrupts_enabled /\ Pending # 0

\* C26: IME is false after reset, and a step changes it only as follows:
\* interrupt dispatch clears it; DI (F3) clears it and EI (FB) sets it, at the
\* end of that same step and for a cost of 4; RETI (D9) sets it.  Every other
\* step, a halted one included, leaves IME as it was.
C26_ImeChanges ==
    /\ ~CpuDefault.interrupts_enabled
    /\ steps > 0 =>
          /\ mid.cpu.interrupts_enabled = (pre.cpu.interrupts_enabled /\ ~Dispatched)
          /\ ~Fetched => cpu.interrupts_enabled = pre.cpu.interrupts_enabled
          /\ (Fetched /\ Opcode = \hF3) => (~cpu.interrupts_enabled /\ cycles = 4)
          /\ (Fetched /\ Opcode = \hFB) => (cpu.interrupts_enabled /\ cycles = 4)
          /\ (Fetched /\ Opcode = \hD9) => cpu.interrupts_enabled
          /\ (Fetched /\ Opcode \notin {\hF3, \hFB, \hD9}) =>
                cpu.interrupts_enabled = mid.cpu.interrupts_enabled

\* C26 witness: EI entered with IME clear returns 4 with IME set
C26_Witness ==
    /\ Fetched /\ Opcode = \hFB
    /\ ~pre.cpu.interrupts_enabled
    /\ Pending # 0
    /\ cpu.interrupts_enabled
    /\ cycles = 4

\* C27: a step entered with halted set and no enabled request pending
\* (IE & IF & 0x1F = 0) returns 4, makes no bus access (no opcode fetch), and
\* leaves PC, SP, AF, BC, DE, HL, IME, halted, stopped and every bus byte
\* unchanged.
C27_HaltedIdleStep ==
    (steps > 0 /\ pre.cpu.halted /\ Pending = 0) =>
        /\ fault = "none"
        /\ cycles = 4
        /\ bus = <<>>
        /\ cpu = pre.cpu
        /\ mmu = pre.mmu

\* C27 witness: a halted Cpu with IME set, IE = 0xFF and requests in bits 5..7
\* only (IF = 0xE0) has taken a step
C27_Witness ==
    /\ steps > 0
    /\ pre.cpu.halted /\ pre.cpu.interrupts_enabled
    /\ PreIF = \hE0 /\ PreIE = \hFF
    /\ Pending = 0
    /\ cpu.halted /\ cpu.pc = pre.cpu.pc
    /\ cycles = 4

(***************************************************************************)
(* SpecRegs: loads into the register file.  A pair is loaded with          *)
(* LD rr,u16 or POP AF; the halves of a pair are loaded one after the      *)
(* other with LD r,u8; and each opcode of 0x40..0xBF is executed on        *)
(* registers holding distinct bytes.                                       *)
(***************************************************************************)
\* LD BC,u16 / LD DE,u16 / LD HL,u16
LoadPairOpcodes == {\h01, \h11, \h21}

\* LD B / D / H,u8 and LD C / E / L,u8: the high and the low half of a pair
LoadHighOpcodes == {\h06, \h16, \h26}
LoadLowOpcodes == {\h0E, \h1E, \h2E}

\* LD r,u8 for B, C, D, E, H, L, A
LoadHalfOpcodes == LoadHighOpcodes \cup LoadLowOpcodes \cup {\h3E}

\* LD dst,src and HALT; ALU A,src
LoadGridOpcodes == \h40..\h7F

\* accumulators, flag bytes and bytes at (HL) of the opcode grid
GridAccumulators == {\h00, \h3C, \hFF}
GridFlags == {\h00, \h10, \hF0}
GridCells == {\h00, \h9A, \hFF}

InitRegs ==
    \/ \E op \in LoadPairOpcodes, x \in WideSamples :
          Start(AluCpu(\h3C, \hB0),
                Image(AluBase, <<op, x % 256, x \div 256>>))
    \/ \E x \in WideSamples :
          Start(AluCpu(\h3C, \hB0),
                (AluBase :> \hF1) @@ (\hD000 :> (x % 256)) @@ (\hD001 :> (x \div 256)))
    \/ \E op \in LoadHighOpcodes, h \in ByteSamples, l \in ByteSamples, first \in BOOLEAN :
          Start(AluCpu(\h3C, \hB0),
                Image(AluBase, IF first THEN <<op, h, op + 8, l>> ELSE <<op + 8, l, op, h>>))
    \/ \E h \in Bytes, f \in GridFlags :
          Start(AluCpu(\h3C, f), Image(AluBase, <<\h3E, h>>))
    \/ \E op \in LoadGridOpcodes \cup AluGridOpcodes, a \in GridAccumulators,
          f \in GridFlags, s \in GridCells :
          Start(AluCpu(a, f), (AluBase :> op) @@ (\hC065 :> s))

SpecRegs == InitRegs /\ [][Next]_vars

(***************************************************************************)
(* Properties of the register file and of the opcode grid (SpecRegs).      *)
(***************************************************************************)
\* the 8-bit register of operand index 0..7 (6 is the byte at HL)
RegisterName(idx) ==
    CASE idx = 0 -> "B"
      [] idx = 1 -> "C"
      [] idx = 2 -> "D"
      [] idx = 3 -> "E"
      [] idx = 4 -> "H"
      [] idx = 5 -> "L"
      [] idx = 7 -> "A"

\* the pair of number 0..2
PairName(k) ==
    CASE k = 0 -> "BC"
      [] k = 1 -> "DE"
      [] k = 2 -> "HL"

\* the immediate byte of the instruction fetched by the call before the last
PrevOperand == mmu_read(prev.mmu, (prev.cpu.pc + 1) % 65536)

\* the last two calls executed LD r,u8 on the two halves of one pair
LoadedBothHalves ==
    /\ steps = 2
    /\ ~prev.cpu.halted /\ ~prev.cpu.interrupts_enabled
    /\ Fetched
    /\ PrevOpcode \in LoadHighOpcodes \cup LoadLowOpcodes
    /\ Opcode \in LoadHighOpcodes \cup LoadLowOpcodes
    /\ Opcode \div 16 = PrevOpcode \div 16
    /\ Opcode # PrevOpcode

\* C28: for each pair (AF with high half A; BC; DE; HL): after the pair is
\* written with x, the high half reads (x >> 8) & 0xFF and the low half
\* x & 0xFF; after the high half is written with h and the low half with l,
\* the pair reads (h << 8) | l; and writing one 8-bit register leaves the
\* other half of its pair and every other register unchanged.
C28_RegisterAliasing ==
    /\ (Fetched /\ Opcode \in LoadPairOpcodes) =>
          LET x == WideOperand
              m == Machine(cpu, mmu)
              k == Opcode \div 16
          IN  /\ wide_register(m, PairName(k)) = x
              /\ register(m, RegisterName(2 * k)) = (x \div 256) % 256
              /\ register(m, RegisterName(2 * k + 1)) = x % 256
    /\ (Fetched /\ Opcode = \hF1) =>
          /\ register(Machine(cpu, mmu), "A") = (StackTop \div 256) % 256
          /\ cpu.af \div 256 = StackTop \div 256
    /\ LoadedBothHalves =>
          LET h == IF Opcode \in LoadHighOpcodes THEN OperandOf(mid, 8) ELSE PrevOperand
              l == IF Opcode \in LoadLowOpcodes THEN OperandOf(mid, 8) ELSE PrevOperand
          IN  wide_register(Machine(cpu, mmu), PairName(Opcode \div 16)) = h * 256 + l
    /\ (Fetched /\ Opcode \in LoadHalfOpcodes) =>
          LET idx == (Opcode \div 8) % 8
              v == OperandOf(mid, 8)
          IN  /\ register(Machine(cpu, mmu), RegisterName(idx)) = v
              /\ cpu = [WithOperand(mid.cpu, idx, v) EXCEPT !.pc = (mid.cpu.pc + 2) % 65536]

\* C28 witness: LD L,0x7F and then LD H,0x80 leave HL = 0x807F, and BC, DE,
\* AF and SP as they were
C28_Witness ==
    /\ LoadedBothHalves
    /\ PrevOpcode = \h2E /\ Opcode = \h26
    /\ PrevOperand = \h7F /\ OperandOf(mid, 8) = \h80
    /\ prev.cpu.hl = \hC065
    /\ cpu.hl = \h807F
    /\ cpu.bc = \h2132 /\ cpu.de = \h4354 /\ cpu.af = \h3CB0 /\ cpu.sp = \hD000

\* the machine right after the opcode of the last call was fetched
AfterFetch ==
    [Machine(mid.cpu, mid.mmu) EXCEPT !.pc = (mid.cpu.pc + 1) % 65536]

\* ALU operation k of {0: ADD, 1: ADC, 2: SUB, 3: SBC, 4: AND, 5: XOR, 6: OR,
\* 7: CP} applied to the byte v on the machine m
AluApplied(m, k, v) ==
    CASE k = 0 -> add_value(m, v, FALSE)
      [] k = 1 -> add_value(m, v, flag(m, FlagCarry))
      [] k = 2 -> sub_value(m, v, FALSE)
      [] k = 3 -> sub_value(m, v, flag(m, FlagCarry))
      [] k = 4 -> and_value(m, v)
      [] k = 5 -> xor_value(m, v)
      [] k = 6 -> or_value(m, v)
      [] k = 7 -> cp_value(m, v, FALSE)

\* C29: for every opcode op of 0x40..0x7F except 0x76 the step performs
\* LD dst,src with dst = (op >> 3) & 7 and src = op & 7 under the operand
\* indices {0: B, 1: C, 2: D, 3: E, 4: H, 5: L, 6: (HL), 7: A}, for a cost of 4
\* between registers and 8 when either side is (HL); 0x76 is HALT; for every
\* op of 0x80..0xBF the step applies ALU operation (op >> 3) & 7 to operand
\* op & 7, for a cost of 4 for a register and 8 for (HL).
C29_OpcodeGridDecoding ==
    /\ (Fetched /\ Opcode \in LoadGridOpcodes /\ Opcode # \h76) =>
          LET dst == (Opcode \div 8) % 8
              src == Opcode % 8
              v == OperandOf(mid, src)
              next == (mid.cpu.pc + 1) % 65536
          IN  /\ fault = "none"
              /\ cycles = IF dst = 6 \/ src = 6 THEN 8 ELSE 4
              /\ IF dst = 6
                 THEN /\ cpu = [mid.cpu EXCEPT !.pc = next]
                      /\ mmu = mmu_write(mid.mmu, mid.cpu.hl, v)
                 ELSE /\ cpu = [WithOperand(mid.cpu, dst, v) EXCEPT !.pc = next]
                      /\ mmu = mid.mmu
    /\ (Fetched /\ Opcode = \h76) =>
          /\ fault = "none"
          /\ cpu = [mid.cpu EXCEPT !.pc = (mid.cpu.pc + 1) % 65536, !.halted = TRUE]
          /\ mmu = mid.mmu
    /\ (Fetched /\ Opcode \in AluGridOpcodes) =>
          LET k == (Opcode \div 8) % 8
              src == Opcode % 8
          IN  /\ fault = "none"
              /\ cycles = IF src = 6 THEN 8 ELSE 4
              /\ cpu = CpuOf(AluApplied(AfterFetch, k, OperandOf(mid, src)))
              /\ mmu = mid.mmu

\* C29 witness: LD (HL),E (0x73) with E = 0x54 and HL = 0xC065 stores 0x54 at
\* 0xC065 and returns 8
C29_Witness ==
    /\ Fetched /\ Opcode = \h73
    /\ mid.cpu.de = \h4354 /\ mid.cpu.hl = \hC065
    /\ mmu_read(mid.mmu, \hC065) = \h9A
    /\ mmu_read(mmu, \hC065) = \h54
    /\ cpu.hl = \hC065
    /\ cycles = 8

(***************************************************************************)
(* Decoding of the CB-prefixed opcodes (SpecBits).                         *)
(***************************************************************************)
\* the machine right after the prefix and the CB opcode were fetched
AfterCbFetch ==
    [Machine(mid.cpu, mid.mmu) EXCEPT !.pc = (mid.cpu.pc + 2) % 65536]

\* the machine m after the operation of class 0..3 and number n on the byte v:
\* class 0 is the rotate or shift n of {0: RLC, 1: RRC, 2: RL, 3: RR, 4: SLA,
\* 5: SRA, 6: SWAP, 7: SRL}, class 1 BIT n, class 2 RES n, class 3 SET n.  The
\* byte to store is m.val; BIT stores nothing.
CbApplied(m, class, n, v) ==
    CASE class = 0 /\ n = 0 -> rlc_value(m, v)
      [] class = 0 /\ n = 1 -> rrc_value(m, v)
      [] class = 0 /\ n = 2 -> rl_value(m, v)
      [] class = 0 /\ n = 3 -> rr_value(m, v)
      [] class = 0 /\ n = 4 -> sla_value(m, v)
      [] class = 0 /\ n = 5 -> sra_value(m, v)
      [] class = 0 /\ n = 6 -> swap_value(m, v)
      [] class = 0 /\ n = 7 -> srl_value(m, v)
      [] class = 1 -> [bit_value(m, n, v) EXCEPT !.val = v]
      [] class = 2 -> reset_bit_value(m, n, v)
      [] class = 3 -> set_bit_value(m, n, v)

\* C30: for every CB-prefixed opcode op = (class << 6) | (n << 3) | operand the
\* step applies to operand op & 7 (under {0: B, 1: C, 2: D, 3: E, 4: H, 5: L,
\* 6: (HL), 7: A}) the rotate or shift n for class 0, BIT n for class 1, RES n
\* for class 2 and SET n for class 3, touches no other register, and leaves
\* PC two bytes behind the prefix.
C30_CbDecoding ==
    FetchedCb =>
        LET idx == CbOpcode % 8
            class == CbOpcode \div 64
            e == CbApplied(AfterCbFetch, class, (CbOpcode \div 8) % 8, CbOperandBefore)
            c == [mid.cpu EXCEPT !.af = e.af, !.pc = (mid.cpu.pc + 2) % 65536]
        IN  /\ fault = "none"
            /\ cpu.pc = (mid.cpu.pc + 2) % 65536
            /\ IF idx = 6
               THEN /\ cpu = c
                    /\ mmu = IF class = 1 THEN mid.mmu
                             ELSE mmu_write(mid.mmu, mid.cpu.hl, e.val)
               ELSE /\ cpu = WithOperand(c, idx, e.val)
                    /\ mmu = mid.mmu

\* C30 witness: CB 9D (RES 3,L) on L = 0xFF leaves L = 0xF7, H, the flags and
\* the other registers as they were, and PC at 0x0102
C30_Witness ==
    /\ FetchedCb /\ CbOpcode = \h9D
    /\ mid.cpu.pc = \h0100
    /\ mid.cpu.hl = \hC0FF /\ mid.cpu.af = \h3CE0
    /\ cpu.hl = \hC0F7 /\ cpu.af = \h3CE0
    /\ cpu.bc = \h2132 /\ cpu.de = \h4354
    /\ cpu.pc = \h0102

(***************************************************************************)
(* Costs of the CB-prefixed opcodes, SWAP, SCF and CCF (SpecBits).         *)
(***************************************************************************)
\* C31: a CB-prefixed instruction returns 8 with a register operand and 16
\* with the operand (HL), except BIT b,(HL) (CB 46, 4E, 56, 5E, 66, 6E, 76,
\* 7E), which returns 12.
C31_CbCosts ==
    FetchedCb =>
        /\ fault = "none"
        /\ cycles = IF CbOpcode % 8 # 6 THEN 8
                    ELSE IF CbOpcode \div 64 = 1 THEN 12
                    ELSE 16

(***************************************************************************)
(* SpecMisc: every primary opcode and every CB-prefixed opcode entered     *)
(* with the flags set and clear, stopped set and clear, and with or        *)
(* without an interrupt to dispatch; two SWAPs of one operand in a row;    *)
(* SCF and CCF; STOP at addresses up to the top of memory.                 *)
(***************************************************************************)
\* flag bytes: all clear, all set, N and C, Z and H
MiscFlags == {\h00, \hF0, \h50, \hA0}

\* IME with the request and enable bytes: nothing to dispatch, source 2
\* enabled among five requests, requests in bits 5..7 only
MiscInterrupts ==
    {<<FALSE, \h00, \h00>>, <<TRUE, \h1F, \h04>>, <<TRUE, \hE0, \hFF>>}

\* the two bytes behind the opcode
MiscOperands == {<<\h00, \h00>>, <<\hFE, \hC0>>}

\* addresses of a STOP opcode
StopPcs == {\h0100, \hC123, \hFFFE, \hFFFF}

\* the opcode and its operand bytes at 0x0100 and at every interrupt vector,
\* and the request and enable bytes
MiscBus(op, operands, if_value, ie_value) ==
    [a \in UNION {{base, base + 1, base + 2} : base \in Vectors \cup {AluBase}}
           \cup {PortIF, PortIE} |->
        IF a = PortIF THEN if_value
        ELSE IF a = PortIE THEN ie_value
        ELSE IF a % 8 = 0 THEN op
        ELSE operands[a % 8]]

InitMisc ==
    \/ \E op \in 0..255, f \in MiscFlags, st \in BOOLEAN, q \in MiscInterrupts,
          operands \in MiscOperands :
          Start([AluCpu(\h3C, f) EXCEPT !.stopped = st, !.interrupts_enabled = q[1]],
                MiscBus(op, operands, q[2], q[3]))
    \/ \E cbop \in 0..255, f \in {\h00, \hF0} :
          Start(AluCpu(\h3C, f), Image(AluBase, <<\hCB, cbop>>))
    \/ \E idx \in 0..7, v \in Bytes, f \in BitsFlags :
          Start(WithOperand(AluCpu(\h3C, f), idx, v),
                Image(AluBase, <<\hCB, \h30 + idx, \hCB, \h30 + idx>>)
                @@ (\hC065 :> v))
    \/ \E op \in {\h37, \h3F}, a \in ByteSamples, f \in FlagSamples :
          Start(AluCpu(a, f), (AluBase :> op))
    \/ \E pc0 \in StopPcs, operand \in ByteSamples, f \in MiscFlags :
          Start([AluCpu(\h3C, f) EXCEPT !.pc = pc0],
                (pc0 :> \h10) @@ (((pc0 + 1) % 65536) :> operand))

SpecMisc == InitMisc /\ [][Next]_vars

\* SWAP B, C, D, E, H, L, (HL), A
SwapOpcodes == \h30..\h37

\* the nibbles of a byte exchanged
SwapOf(v) == ((v * 16) % 256) + (v \div 16)

\* the last two calls executed the same SWAP
SwappedTwice ==
    /\ steps = 2
    /\ ~prev.cpu.halted /\ ~prev.cpu.interrupts_enabled
    /\ PrevOpcode = \hCB /\ PrevOperand \in SwapOpcodes
    /\ FetchedCb /\ CbOpcode = PrevOperand

\* C32: SWAP leaves ((v << 4) | (v >> 4)) & 0xFF in its operand and sets
\* Z = (result = 0), N = H = C = 0 whatever the flags were; a second SWAP of
\* the same operand leaves the byte the first one started from.
C32_SwapInvolution ==
    /\ (FetchedCb /\ CbOpcode \in SwapOpcodes) =>
          /\ fault = "none"
          /\ CbOperandAfter = SwapOf(CbOperandBefore)
          /\ FlagsAre(cpu.af, B2N(SwapOf(CbOperandBefore) = 0), 0, 0, 0)
    /\ SwappedTwice =>
          /\ CbOperandAfter = OperandOf(prev, CbOpcode % 8)
          /\ CbOperandBefore = SwapOf(OperandOf(prev, CbOpcode % 8))

\* C32 witness: SWAP (HL) twice on 0xA5, entered with every flag set, stores
\* 0x5A and then 0xA5 again, with every flag clear
C32_Witness ==
    /\ SwappedTwice
    /\ CbOpcode = \h36
    /\ prev.cpu.af % 256 = \hF0
    /\ OperandOf(prev, 6) = \hA5
    /\ CbOperandBefore = \h5A
    /\ CbOperandAfter = \hA5
    /\ cpu.af % 256 = \h00

\* C33: SCF (37) sets C = 1 and CCF (3F) inverts C; both set N = 0 and H = 0
\* whatever they were, leave Z and A unchanged, and return 4.
C33_ScfCcf ==
    (Fetched /\ Opcode \in {\h37, \h3F}) =>
        /\ fault = "none"
        /\ cycles = 4
        /\ AOf(cpu.af) = AOf(mid.cpu.af)
        /\ FlagsAre(cpu.af, ZOf(mid.cpu.af), 0, 0,
                    IF Opcode = \h37 THEN 1 ELSE 1 - COf(mid.cpu.af))
        /\ cpu = [mid.cpu EXCEPT !.af = cpu.af, !.pc = (mid.cpu.pc + 1) % 65536]

\* C33 witness: CCF with A = 0xAA and F = 0xF0 (every flag set) leaves
\* F = 0x80: Z kept, N, H and C clear
C33_Witness ==
    /\ Fetched /\ Opcode = \h3F
    /\ mid.cpu.af = \hAAF0
    /\ cpu.af = \hAA80
    /\ cycles = 4

(***************************************************************************)
(* STOP, step costs, untaken branches, flags under data movement           *)
(* (SpecMisc, SpecFlow).                                                   *)
(***************************************************************************)
\* C34: STOP (opcode 10) sets stopped, consumes one byte after the opcode (PC
\* advances by 2 over the step), returns 4, and changes no other register,
\* flag or bus byte.
C34_Stop ==
    (Fetched /\ Opcode = \h10) =>
        /\ fault = "none"
        /\ cycles = 4
        /\ cpu = [mid.cpu EXCEPT !.stopped = TRUE, !.pc = (mid.cpu.pc + 2) % 65536]
        /\ mmu = mid.mmu

\* C34 witness: STOP at 0xFFFF, followed by the byte 0x55 at 0x0000, leaves
\* PC = 0x0001 with stopped set
C34_Witness ==
    /\ Fetched /\ Opcode = \h10
    /\ mid.cpu.pc = \hFFFF /\ ~mid.cpu.stopped
    /\ OperandOf(mid, 8) = \h55
    /\ cpu.pc = \h0001 /\ cpu.stopped
    /\ cpu.af = mid.cpu.af
    /\ cycles = 4

\* the cycle counts a step may report
StepCosts == {4, 8, 12, 16, 20, 24}

\* C35: every step that completes returns a cycle count that is a positive
\* multiple of 4 and no greater than 24.
C35_StepCostBounded ==
    (steps > 0 /\ fault = "none") => cycles \in StepCosts

\* C35 witness: CALL u16, entered after an interrupt was dispatched in the
\* same step, returns 24
C35_Witness ==
    /\ Dispatched
    /\ Fetched /\ Opcode = \hCD
    /\ fault = "none"
    /\ cycles = 24

\* JR cc, JP cc, CALL cc, RET cc
ConditionalOpcodes ==
    (JrOpcodes \cup JpOpcodes \cup CallOpcodes \cup RetOpcodes) \ UnconditionalOpcodes

\* the bytes an opcode of ConditionalOpcodes occupies
BranchLength(op) ==
    CASE op \in JrOpcodes -> 2
      [] op \in JpOpcodes \cup CallOpcodes -> 3
      [] op \in RetOpcodes -> 1

\* C36: when the condition of JR cc, JP cc, CALL cc or RET cc is not met, the
\* operand bytes are still consumed (PC ends just past the one operand byte of
\* JR cc, past both operand bytes of JP cc and CALL cc, at the next instruction
\* for RET cc) and SP, the stack memory, and every other register and flag are
\* unchanged.
C36_UntakenBranchFrame ==
    (Fetched /\ Opcode \in ConditionalOpcodes /\ ~Taken) =>
        /\ fault = "none"
        /\ cpu = [mid.cpu EXCEPT !.pc = (mid.cpu.pc + BranchLength(Opcode)) % 65536]
        /\ mmu = mid.mmu
        /\ Writes(InstructionLog) = <<>>

\* C36 witness: CALL C,u16 (DC) at 0xFFFE with C = 0 and SP = 0x0001 ends with
\* PC = 0x0001 and SP = 0x0001, nothing pushed
C36_Witness ==
    /\ Fetched /\ Opcode = \hDC
    /\ mid.cpu.pc = \hFFFE /\ mid.cpu.sp = \h0001
    /\ COf(mid.cpu.af) = 0
    /\ ~Taken
    /\ cpu.pc = \h0001 /\ cpu.sp = \h0001
    /\ mmu = mid.mmu
    /\ cycles = 12

(***************************************************************************)
(* Requests in bits 5..7, dispatch followed by RETI, the stopped mode      *)
(* (SpecInt, SpecMisc).                                                    *)
(***************************************************************************)
\* the last call was entered not halted with IME set and IE & IF non-zero in
\* bits 5..7 only
HighBitsOnly ==
    /\ steps > 0
    /\ ~pre.cpu.halted
    /\ pre.cpu.interrupts_enabled
    /\ BitAnd(PreIE, PreIF) # 0
    /\ Pending = 0

\* the call of cycle on the state the last call was entered with, IME cleared
WithImeClear ==
    cycle(Machine([pre.cpu EXCEPT !.interrupts_enabled = FALSE], pre.mmu))

\* C37: with IME set and IE & IF non-zero only in bits 5..7, the step
\* dispatches nothing: on return from service_interrupts IME is still set,
\* IF has not been written, nothing was pushed and PC and SP are as before;
\* the opcode at PC is then fetched and executed as it is with IME clear.
C37_HighBitsDispatchNothing ==
    HighBitsOnly =>
        /\ mid.cpu = pre.cpu
        /\ mid.mmu = pre.mmu
        /\ Writes(mid.bus) = <<>>
        /\ InstructionLog[1] = <<"read", pre.cpu.pc, mmu_read(pre.mmu, pre.cpu.pc)>>
        /\ \E n \in {WithImeClear} :
              /\ cpu = [CpuOf(n) EXCEPT !.interrupts_enabled =
                                           IF Opcode = \hF3 THEN FALSE ELSE TRUE]
              /\ mmu = n.mmu
              /\ cycles = n.ret
              /\ fault = n.fault

\* C37 witness: with IME set, IE = 0xFF and IF = 0xE0, PUSH BC at 0x0100 is
\* executed at once: SP goes from 0xD000 to 0xCFFE, IF is still 0xE0 and IME
\* is still set
C37_Witness ==
    /\ HighBitsOnly
    /\ PreIE = \hFF /\ PreIF = \hE0
    /\ pre.cpu.pc = \h0100 /\ pre.cpu.sp = \hD000
    /\ Opcode = \hC5
    /\ cpu.pc = \h0101 /\ cpu.sp = \hCFFE
    /\ mmu_read(mmu, PortIF) = \hE0
    /\ cpu.interrupts_enabled

\* the two stack bytes below sp0 do not lie on the IF byte (a push there is
\* overwritten when IF is written back)
StackClearOfIF(sp0) == PortIF \notin {(sp0 - 1) % 65536, (sp0 - 2) % 65536}

\* the last call dispatched an interrupt and then executed RETI at the vector
DispatchedThenReti ==
    /\ Dispatched
    /\ StackClearOfIF(pre.cpu.sp)
    /\ mid.cpu.pc = VectorOf(LowestBit(Pending))
    /\ Opcode = \hD9

\* the enabled requests when the call before the last was entered
PrevPending ==
    BitAnd(BitAnd(mmu_read(prev.mmu, PortIE), mmu_read(prev.mmu, PortIF)), \h1F)

\* the call before the last dispatched an interrupt and executed RETI at the
\* vector, and the last call had no enabled request left to dispatch
ResumedAfterReti ==
    /\ steps = 2
    /\ ~prev.cpu.halted /\ prev.cpu.interrupts_enabled
    /\ PrevPending # 0
    /\ StackClearOfIF(prev.cpu.sp)
    /\ mmu_read(prev.mmu, VectorOf(LowestBit(PrevPending))) = \hD9
    /\ Pending = 0

FlagNeutralOpcodes ==
    {\h00, \h10, \h08, \hF9, \hF3, \hFB, \hD9}
    \cup {\h01, \h11, \h21, \h31}
    \cup {\h02, \h12, \h0A, \h1A, \h22, \h32, \h2A, \h3A}
    \cup {\h03, \h13, \h23, \h33, \h0B, \h1B, \h2B, \h3B}
    \cup LoadHalfOpcodes \cup {\h36}
    \cup LoadGridOpcodes
    \cup {\hE0, \hF0, \hE2, \hF2, \hEA, \hFA}
    \cup PushOpcodes \cup {\hC1, \hD1, \hE1}
    \cup JrOpcodes \cup JpOpcodes \cup CallOpcodes \cup RetOpcodes \cup RstOpcodes

\* the Z, N, H and C bits of an AF value
FlagBits(af) == (af \div 16) % 16

\* C39: no data-movement or control-flow step changes a flag: NOP, every LD
\* form, INC rr and DEC rr, PUSH, POP of BC/DE/HL, JR, JP, CALL, RET, RETI,
\* RST, DI, EI, HALT and STOP leave the Z, N, H and C bits of F as they were.
C39_DataMovementKeepsFlags ==
    (Fetched /\ Opcode \in FlagNeutralOpcodes) =>
        /\ fault = "none"
        /\ FlagBits(mid.cpu.af) = FlagBits(pre.cpu.af)
        /\ FlagBits(cpu.af) = FlagBits(pre.cpu.af)

\* C39 witness: INC HL (23) entered with Z and H set and N and C clear
\* leaves HL = 0xC066 and F = 0xA0
C39_Witness ==
    /\ Fetched /\ Opcode = \h23
    /\ pre.cpu.af = \h3CA0 /\ pre.cpu.hl = \hC065
    /\ cpu.hl = \hC066
    /\ cpu.af = \h3CA0

\* the call of cycle on the state the last call was entered with, stopped
\* cleared
WithStoppedClear ==
    cycle(Machine([pre.cpu EXCEPT !.stopped = FALSE], pre.mmu))

\* C40: once stopped is set no later step clears it, and stopped does not
\* suspend execution: a step entered with stopped set services interrupts,
\* fetches and executes exactly as the same step entered with stopped clear.
C40_StoppedDoesNotSuspend ==
    (steps > 0 /\ pre.cpu.stopped) =>
        /\ cpu.stopped
        /\ \E n \in {WithStoppedClear} :
              /\ cpu = [CpuOf(n) EXCEPT !.stopped = TRUE]
              /\ mmu = n.mmu
              /\ bus = n.bus
              /\ cycles = n.ret
              /\ fault = n.fault

\* C40 witness: a stopped Cpu with IME set, IE = 0x04 and IF = 0x1F dispatches
\* to 0x0050 and executes the PUSH BC found there
C40_Witness ==
    /\ steps > 0 /\ pre.cpu.stopped
    /\ Dispatched
    /\ mid.cpu.pc = \h0050
    /\ Opcode = \hC5
    /\ cpu.pc = \h0051 /\ cpu.sp = \hCFFC
    /\ cpu.stopped
    /\ cycles = 16

=============================================================================
